---------------------------- MODULE Spec2Model ----------------------------
(***************************************************************************)
(* Model of the episode generation orchestrator of certaudio               *)
(* (src/src/pipeline/tools/generate_episodes.py and the tools it calls).   *)
(*                                                                         *)
(* SpecBatch   : one invocation of main(), the batch orchestrator:         *)
(*               flatten, slice, the three phases, the exit code, against  *)
(*               a store that earlier runs may have filled.                *)
(* SpecPool    : one invocation of main() with the worker pool of the      *)
(*               synthesis phase spelled out.                              *)
(* SpecMarked  : one invocation of main() whose narrations may end with the *)
(*               continuation marker.                                      *)
(* SpecPair    : two invocations of main() in any interleaving, sharing    *)
(*               the episode container and the blob store.                 *)
(* SpecDomain  : process_skill_domain(), the narration continuation loop.  *)
(* SpecRetry   : call_openai_with_retry(), the backoff wrapper.            *)
(* SpecTts     : synthesize_audio_with_chunking(), the chunked synthesis.  *)
(* SpecSplit   : split_narration_for_tts(), the segmenter.                 *)
(* SpecSsml    : build_ssml_from_narration(), the markup builder.          *)
(* SpecSanitize: sanitize_ssml(), the markup sanitizer.                    *)
(* SpecFlatten : the expansion of the outline into episode units in main().*)
(* SpecProgress: update_progress(), the progress endpoint of the web API    *)
(*               (src/src/functions/function_app.py).                      *)
(* SpecSources : save_episode() of two parallel invocations, sharing the   *)
(*               source documents (src/src/pipeline/tools/save_episode.py).*)
(***************************************************************************)
EXTENDS Integers, Sequences, FiniteSets, TLC

\* ---------------------------------------------------------------- bounds
MaxDomains == 2
MaxTopics == 2
MaxTopicsPerEpisode == 2
MaxBatchIndex == 1
MaxBatchSize == 2
\* Episode numbers 1..MaxExisting may have a document from an earlier run.
MaxExisting == 1
\* The external services fail at most MaxFaults times in one behaviour.
MaxFaults == 1
\* process_skill_domain is called with episode_number in 1..MaxEpisodeArg.
MaxEpisodeArg == 2
\* A narration given to synthesize_audio_with_chunking has 1..MaxParagraphs
\* paragraphs.
MaxParagraphs == 3
\* A narration given to build_ssml_from_narration has at most
\* MaxNarrationTokens characters or markers.
MaxNarrationTokens == 4
\* A narration given to split_narration_for_tts has at most MaxChars characters
\* and the bound given to it is in 0..MaxWordsBound.
MaxChars == 7
MaxWordsBound == 2
\* call_openai_with_retry is called with max_retries in 0..MaxRetriesArg.
MaxRetriesArg == 5

\* The two concurrent invocations of main() (one workflow matrix job each).
Invocations == {"A", "B"}

VARIABLES
    skills,              \* --skills-outline, parsed: the same for every invocation
    topics_per_episode,  \* --topics-per-episode
    run,                 \* per invocation: arguments, locals of main(), exit code
    episodes,            \* Cosmos container "episodes": id -> document
    blobs,               \* blob store: path -> content
    calls,               \* the calls made to the external services so far
    faults,              \* the failures of external services so far
    psd,                 \* process_skill_domain: arguments and locals
    retry,               \* call_openai_with_retry: arguments and locals
    tts,                 \* synthesize_audio_with_chunking: arguments, locals, files
    textfn,              \* a call of one of the pure functions: arguments, result
    progress,            \* Cosmos container "userProgress" and the update requests
    sources              \* Cosmos container "sources": url -> document

vars == <<skills, topics_per_episode, run, episodes, blobs, calls, faults, psd, retry,
          tts, textfn, progress, sources>>

\* ------------------------------------------------------- pure functions

\* Python's range(start, stop, step) for step > 0.
RECURSIVE range(_, _, _)
range(start, stop, step) ==
    IF start >= stop THEN <<>> ELSE <<start>> \o range(start + step, stop, step)

\* Python's s[a:b] (0-based, negative indices count from the end, clamped).
PySlice(s, a, b) ==
    LET n == Len(s)
        norm(x) == IF x < 0 THEN (IF x + n < 0 THEN 0 ELSE x + n)
                   ELSE (IF x > n THEN n ELSE x)
    IN  SubSeq(s, norm(a) + 1, norm(b))

\* Decimal digits of n >= 0, most significant first.
RECURSIVE Digits(_)
Digits(n) == IF n < 10 THEN <<n>> ELSE Digits(n \div 10) \o <<n % 10>>

\* f"{n:03d}" for n >= 0: zero-padded to at least three digits.
Pad3(n) ==
    LET d == Digits(n)
    IN  IF Len(d) >= 3 THEN d ELSE [k \in 1..(3 - Len(d)) |-> 0] \o d

\* save_episode / episode_exists: f"{certification_id}-{audio_format}-{episode_number:03d}"
EpisodeId(n) == <<"cert", "instructional", Pad3(n)>>

\* upload_to_blob: container and path of the three blobs of an episode.
AudioBlobPath(n) == <<"audio", "episodes", Pad3(n)>>
ScriptBlobPath(n) == <<"scripts", "scripts", Pad3(n)>>
SsmlBlobPath(n) == <<"scripts", "ssml", Pad3(n)>>
BlobPaths(n) == <<AudioBlobPath(n), ScriptBlobPath(n), SsmlBlobPath(n)>>

\* main: skills with a non-empty topic list.
main_skills == SelectSeq(skills, LAMBDA s : Len(s.topics) > 0)

\* The units of one domain with total_parts rounded down.
ChunksOfRoundedDown(skill, tpe) ==
    LET starts == range(0, Len(skill.topics), tpe)
    IN  [k \in 1..Len(starts) |->
            [domain      |-> skill.name,
             topics      |-> PySlice(skill.topics, starts[k], starts[k] + tpe),
             part        |-> (starts[k] \div tpe) + 1,
             total_parts |-> Len(skill.topics) \div tpe]]

\* main: the units of one domain, one per chunk of topics_per_episode topics.
ChunksOf(skill, tpe) ==
    LET starts == range(0, Len(skill.topics), tpe)
    IN  [k \in 1..Len(starts) |->
            [domain      |-> skill.name,
             topics      |-> PySlice(skill.topics, starts[k], starts[k] + tpe),
             part        |-> (starts[k] \div tpe) + 1,
             total_parts |-> (Len(skill.topics) + tpe - 1) \div tpe]]

RECURSIVE Flatten(_, _)
Flatten(ms, tpe) ==
    IF ms = <<>> THEN <<>> ELSE ChunksOf(Head(ms), tpe) \o Flatten(Tail(ms), tpe)

episode_units == Flatten(main_skills, topics_per_episode)

\* main: the batch slice and the numbering.
StartIdxOf(bi, bs) == bi * bs
EndIdxOf(bi, bs) == StartIdxOf(bi, bs) + bs
BatchUnitsOf(bi, bs) == PySlice(episode_units, StartIdxOf(bi, bs), EndIdxOf(bi, bs))

start_idx(r) == StartIdxOf(run[r].batch_index, run[r].batch_size)
batch_units(r) == BatchUnitsOf(run[r].batch_index, run[r].batch_size)
\* Mutants of base_episode_number: the +1 forgotten; numbering restarted per batch.
base_episode_number_zero_based(r) == start_idx(r)
base_episode_number_per_batch(r) == 1
base_episode_number(r) == start_idx(r) + 1
EpisodeNumber(r, i) == base_episode_number(r) + i

episode_title(unit) ==
    IF unit.total_parts > 1 THEN <<unit.domain, unit.part>> ELSE <<unit.domain>>

\* episode_exists: read_item returns the item, or raises (not found, or any other
\* failure of the read); every exception is answered False.
episode_exists(id, readFails) == ~readFails /\ id \in DOMAIN episodes

\* Mutant of ShouldSkip: the flag tested the wrong way round.
ShouldSkipOnlyWhenForced(force, exists) == force /\ exists

\* main: the skip test; `and` evaluates episode_exists only when not forced.
ShouldSkip(force, exists) == ~force /\ exists

\* Mutant of ExitCode: the error list is not looked at.
ExitCodeIgnoringErrors(errs, generated, skipped) ==
    IF Len(generated) = 0 /\ Len(skipped) = 0 THEN 1 ELSE 0

\* main: the exit code of a run that reached the summary.
ExitCode(errs, generated, skipped) ==
    IF errs # <<>> THEN 1
    ELSE IF Len(generated) = 0 /\ Len(skipped) = 0 THEN 1
    ELSE 0

\* prepare_episode: the dict it returns.
PreparedEpisode(unit, number, title, narration) ==
    [episode_number |-> number,
     skill_domain   |-> unit.domain,
     skill_topics   |-> unit.topics,
     episode_title  |-> title,
     narration      |-> narration]

\* save_episode: the document written for a prepared episode.
EpisodeDoc(ep) ==
    [id             |-> EpisodeId(ep.episode_number),
     sequenceNumber |-> ep.episode_number,
     title          |-> ep.episode_title,
     skillDomain    |-> ep.skill_domain,
     skillTopics    |-> ep.skill_topics,
     audioUrl       |-> AudioBlobPath(ep.episode_number),
     scriptUrl      |-> ScriptBlobPath(ep.episode_number),
     contentHash    |-> ep.narration]

\* synthesize_episode_audio: the audio of a prepared episode.
AudioResult(ep) == <<"mp3", ep.narration>>

\* upload_to_blob: what is written to the three paths of BlobPaths.
BlobData(ep, audio_result) ==
    <<audio_result, <<"md", ep.narration>>, <<"ssml", ep.narration>>>>

\* container.upsert_item: the whole document is replaced.
Upsert(container, id, doc) ==
    [x \in DOMAIN container \cup {id} |-> IF x = id THEN doc ELSE container[x]]

Log(r, kinds, n) == calls \cup {<<r, k, n>> : k \in kinds}

\* CONTINUATION_MARKER = "[END OF PART - CONTINUE IN NEXT PART]", as two
\* pieces of text.
CONTINUATION_MARKER == <<"[END OF PART - CONTINUE IN NEXT ", "PART]">>

\* What generate_narration may return: `words` ordinary words, a space, and an
\* ending made of pieces of the marker: nothing, the marker, or the marker
\* written inside another marker.
EngineWordCounts == {1000, 1300}
EngineEndings ==
    {<<>>,
     CONTINUATION_MARKER,
     <<CONTINUATION_MARKER[1]>> \o CONTINUATION_MARKER \o <<CONTINUATION_MARKER[2]>>}
EngineOutputs == [words : EngineWordCounts, ending : EngineEndings]

\* `sub in s` for pieces of text.
Contains(s, sub) ==
    \E i \in 1..(Len(s) - Len(sub) + 1) : SubSeq(s, i, i + Len(sub) - 1) = sub

\* s.replace(old, ""): the occurrences of old are removed from left to right
\* in one pass; what the removal brings together is not looked at again.
RECURSIVE str_remove(_, _)
str_remove(s, old) ==
    IF Len(s) < Len(old) THEN s
    ELSE IF SubSeq(s, 1, Len(old)) = old
    THEN str_remove(SubSeq(s, Len(old) + 1, Len(s)), old)
    ELSE <<Head(s)>> \o str_remove(Tail(s), old)

\* needs_continuation: CONTINUATION_MARKER in narration.
needs_continuation(text) == Contains(text.ending, CONTINUATION_MARKER)

\* Mutant of clean_narration: the marker is left in the narration.
clean_narration_keeping_marker(text) == text

\* clean_narration: narration.replace(CONTINUATION_MARKER, "").strip(); strip
\* takes the space between the words and an ending that became empty.
clean_narration(text) == [text EXCEPT !.ending = str_remove(text.ending, CONTINUATION_MARKER)]

\* ------------------------------------------------------------ SpecBatch

\* The two other machines at rest.
IdleDomain == [pc |-> "idle"]
IdleRetry == [pc |-> "idle"]
IdleTts == [pc |-> "idle"]
IdleText == [pc |-> "idle"]
IdleProgress == [pc |-> "idle"]

IdleRun ==
    [pc |-> "idle", batch_index |-> 0, batch_size |-> 1, force_regenerate |-> FALSE,
     existing_at_start |-> {},
     i |-> 0, numbered |-> <<>>,
     prepared_episodes |-> <<>>, skipped_episodes |-> <<>>, errors |-> <<>>,
     tasks |-> <<>>, synthesized_episodes |-> <<>>,
     j |-> 0, generated_episodes |-> <<>>, exit_code |-> -1]

Outlines ==
    UNION {{[d \in 1..n |-> [name |-> d, topics |-> [t \in 1..c[d] |-> t]]] :
                c \in [1..n -> 0..MaxTopics]} : n \in 1..MaxDomains}

\* What an earlier, complete run of main() left for episode number n.
EarlierEpisode(n) ==
    PreparedEpisode(episode_units[n], n, episode_title(episode_units[n]), <<"earlier", n>>)

EarlierNumbers == {n \in 1..MaxExisting : n <= Len(episode_units)}

InitBatch ==
    /\ tts = IdleTts /\ textfn = IdleText /\ progress = IdleProgress
    /\ skills \in Outlines
    /\ topics_per_episode \in 1..MaxTopicsPerEpisode
    /\ run = [r \in Invocations |-> IdleRun]
    /\ \E S \in SUBSET EarlierNumbers :
         /\ episodes = [id \in {EpisodeId(n) : n \in S} |->
                          EpisodeDoc(EarlierEpisode(
                              CHOOSE n \in S : EpisodeId(n) = id))]
         /\ blobs = [p \in {BlobPaths(n)[k] : n \in S, k \in 1..3} |->
                       LET n == CHOOSE m \in S : \E k \in 1..3 : BlobPaths(m)[k] = p
                           k == CHOOSE q \in 1..3 : BlobPaths(n)[q] = p
                       IN  BlobData(EarlierEpisode(n), AudioResult(EarlierEpisode(n)))[k]]
    /\ calls = {}
    /\ faults = 0
    /\ sources = <<>>
    /\ psd = IdleDomain
    /\ retry = IdleRetry

\* main: the summary and the exit (lines 1203-1224).
Report(st) ==
    [st EXCEPT !.pc = "done",
               !.exit_code = ExitCode(st.errors, st.generated_episodes,
                                      st.skipped_episodes)]

\* main: after the Phase 3 loop.
AfterPhase3(st) == IF st.j = Len(st.synthesized_episodes) THEN Report(st) ELSE st

\* main: after the as_completed loop; Phase 3 iterates synthesized_episodes.
AfterPhase2(st) ==
    IF \E k \in DOMAIN st.tasks : st.tasks[k] = "pending" THEN st
    ELSE AfterPhase3([st EXCEPT !.pc = "finalize", !.j = 0])

\* main: after the Phase 1 loop every prepared episode is submitted to the pool.
AfterPhase1(st, n) ==
    IF st.i < n THEN st
    ELSE AfterPhase2([st EXCEPT !.pc = "synth",
                                !.tasks = [k \in DOMAIN st.prepared_episodes |-> "pending"]])

\* main, Phase 1: the three ways one iteration of the loop ends.
SkipUnit(st, number, title) ==
    [st EXCEPT !.skipped_episodes =
                   Append(st.skipped_episodes, [number |-> number, title |-> title])]

KeepPrepared(st, prepared) ==
    [st EXCEPT !.prepared_episodes = Append(st.prepared_episodes, prepared)]

\* Mutant of RecordPrepareError: the message is printed and not kept.
RecordPrepareErrorPrintedOnly(st, number) == st

RecordPrepareError(st, number) ==
    [st EXCEPT !.errors = Append(st.errors, <<"preparing", number>>)]

\* prepare_episode with an engine whose outputs are modelled: the endings
\* generate_narration may return; otherwise the output carries no marker.
PrepareEndings == IF "endings" \in DOMAIN psd THEN psd.endings ELSE {<<>>}

\* What generate_narration returned to prepare_episode: a narration of
\* sufficient length with the given ending.
RawNarration(ending) == [words |-> 1300, ending |-> ending]

\* Mutant of prepare_episode: a narration with the marker makes the episode
\* the next part, numbered one higher.
prepare_episode_as_next_part(r, unit, number, title, raw) ==
    PreparedEpisode(unit, IF needs_continuation(raw) THEN number + 1 ELSE number, title,
                    <<r, number>> \o clean_narration(raw).ending)

\* prepare_episode: the narration is cleaned of the marker and never looked
\* at for a continuation; one dict with the number it was given.
prepare_episode(r, unit, number, title, raw) ==
    PreparedEpisode(unit, number, title, <<r, number>> \o clean_narration(raw).ending)

\* main: argument parsing, flatten, slice; an empty slice returns at once.
Start(r) ==
    /\ run[r].pc = "idle"
    /\ \E bi \in 0..MaxBatchIndex, bs \in 1..MaxBatchSize, force \in BOOLEAN :
         LET st == [run[r] EXCEPT !.batch_index = bi, !.batch_size = bs,
                                  !.force_regenerate = force,
                                  !.existing_at_start = DOMAIN episodes]
         IN  run' = [run EXCEPT ![r] =
                        IF BatchUnitsOf(bi, bs) = <<>>
                        THEN [st EXCEPT !.pc = "done", !.exit_code = 0]
                        ELSE [st EXCEPT !.pc = "prepare"]]
    /\ UNCHANGED <<sources, tts, textfn, progress, psd, retry, skills, topics_per_episode, episodes, blobs, calls, faults>>

\* main, Phase 1: one iteration of the loop over batch_units.
PrepareUnit(r) ==
    /\ run[r].pc = "prepare"
    /\ LET st     == run[r]
           unit   == batch_units(r)[st.i + 1]
           number == EpisodeNumber(r, st.i)
           title  == episode_title(unit)
           id     == EpisodeId(number)
           st1    == [st EXCEPT !.i = st.i + 1,
                                !.numbered = Append(st.numbered,
                                                    [unit |-> unit, number |-> number])]
           n      == Len(batch_units(r))
       IN  \E readFails \in BOOLEAN, prepareFails \in BOOLEAN, ending \in PrepareEndings :
             LET nf     == (IF readFails THEN 1 ELSE 0) + (IF prepareFails THEN 1 ELSE 0)
                 exists == ~st.force_regenerate /\ episode_exists(id, readFails)
                 reads  == IF st.force_regenerate THEN {}
                           ELSE IF exists THEN {"read", "exists"} ELSE {"read"}
                 skip   == ShouldSkip(st.force_regenerate, exists)
             IN  /\ readFails => ~st.force_regenerate /\ id \in DOMAIN episodes
                 /\ prepareFails => ~skip
                 /\ (skip \/ prepareFails) => ending = <<>>
                 /\ faults + nf <= MaxFaults
                 /\ faults' = faults + nf
                 /\ IF skip
                    THEN /\ run' = [run EXCEPT ![r] =
                                       AfterPhase1(SkipUnit(st1, number, title), n)]
                         /\ calls' = Log(r, reads, number)
                    ELSE IF ~prepareFails
                    THEN /\ run' = [run EXCEPT ![r] = AfterPhase1(
                                       KeepPrepared(st1, prepare_episode(
                                           r, unit, number, title, RawNarration(ending))), n)]
                         /\ calls' = Log(r, reads \cup {"retrieve", "generate", "ssml"}
                                            \cup (IF needs_continuation(RawNarration(ending))
                                                  THEN {"marker"} ELSE {}),
                                         number)
                    ELSE /\ run' = [run EXCEPT ![r] =
                                       AfterPhase1(RecordPrepareError(st1, number), n)]
                         /\ calls' = Log(r, reads \cup {"retrieve"}, number)
    /\ UNCHANGED <<sources, tts, textfn, progress, psd, retry, skills, topics_per_episode, episodes, blobs>>

\* Mutant of RecordSynthFailure: the failure leaves the loop and the tasks still
\* pending are cancelled.
RecordSynthFailureAborting(st, k) ==
    [st EXCEPT !.tasks = [x \in DOMAIN st.tasks |->
                            IF x = k THEN "failed"
                            ELSE IF st.tasks[x] = "pending" THEN "cancelled"
                            ELSE st.tasks[x]],
               !.errors = Append(st.errors,
                                 <<"synthesizing", st.prepared_episodes[k].episode_number>>)]

\* main, Phase 2: a failed future is recorded; the loop goes on.
RecordSynthFailure(st, k) ==
    [st EXCEPT !.tasks[k] = "failed",
               !.errors = Append(st.errors,
                                 <<"synthesizing", st.prepared_episodes[k].episode_number>>)]

\* Mutant of RecordSynthSuccess: the result of the completed task is given to
\* the next episode in submission order, whichever task completed.
RecordSynthSuccessInSubmitOrder(st, k) ==
    [st EXCEPT !.tasks[k] = "ok",
               !.synthesized_episodes =
                   Append(st.synthesized_episodes,
                          [ep |-> st.prepared_episodes[Len(st.synthesized_episodes) + 1],
                           audio_result |-> AudioResult(st.prepared_episodes[k])])]

\* main, Phase 2: future_to_episode[future] gets the result of its own future.
RecordSynthSuccess(st, k) ==
    [st EXCEPT !.tasks[k] = "ok",
               !.synthesized_episodes =
                   Append(st.synthesized_episodes,
                          [ep |-> st.prepared_episodes[k],
                           audio_result |-> AudioResult(st.prepared_episodes[k])])]

\* main, Phase 2: the task of prepared episode k completes and as_completed
\* hands its future to the loop.
SynthCompleteStep(r, k) ==
    /\ run[r].pc = "synth"
    /\ k \in DOMAIN run[r].tasks
    /\ run[r].tasks[k] = "pending"
    /\ \E fails \in BOOLEAN :
         /\ fails => faults < MaxFaults
         /\ faults' = faults + (IF fails THEN 1 ELSE 0)
         /\ run' = [run EXCEPT ![r] = AfterPhase2(
                       IF fails THEN RecordSynthFailure(run[r], k)
                       ELSE RecordSynthSuccess(run[r], k))]
    /\ calls' = Log(r, {"synthesize"}, run[r].prepared_episodes[k].episode_number)
    /\ UNCHANGED <<sources, textfn, progress, psd, retry, skills, topics_per_episode, episodes, blobs>>

\* The same with the worker pool left out of the picture.
SynthComplete(r, k) == SynthCompleteStep(r, k) /\ UNCHANGED tts

\* upload_to_blob: the blobs are written in order (audio, script, ssml) with
\* overwrite=True; a failure leaves the blobs written before it.
UploadBlobs(ep, audio_result, written) ==
    LET paths == BlobPaths(ep.episode_number)
        data  == BlobData(ep, audio_result)
        dom   == DOMAIN blobs \cup {paths[k] : k \in 1..written}
    IN  [p \in dom |-> IF \E k \in 1..written : paths[k] = p
                       THEN data[CHOOSE k \in 1..written : paths[k] = p]
                       ELSE blobs[p]]

RecordFinalizeError(st, number) ==
    [st EXCEPT !.errors = Append(st.errors, <<"finalizing", number>>)]

KeepGenerated(st, doc) ==
    [st EXCEPT !.generated_episodes = Append(st.generated_episodes, doc)]

\* main, Phase 3: finalize_episode for the next synthesized episode.
FinalizeUnit(r) ==
    /\ run[r].pc = "finalize"
    /\ LET st     == run[r]
           s      == st.synthesized_episodes[st.j + 1]
           ep     == s.ep
           number == ep.episode_number
           doc    == EpisodeDoc(ep)
           st1    == [st EXCEPT !.j = st.j + 1]
       IN  \E written \in 0..3, saveFails \in BOOLEAN :
             LET fails == written < 3 \/ saveFails
             IN  /\ saveFails => written = 3
                 /\ fails => faults < MaxFaults
                 /\ faults' = faults + (IF fails THEN 1 ELSE 0)
                 /\ blobs' = UploadBlobs(ep, s.audio_result, written)
                 /\ IF written < 3
                    THEN /\ run' = [run EXCEPT ![r] =
                                       AfterPhase3(RecordFinalizeError(st1, number))]
                         /\ episodes' = episodes
                         /\ calls' = Log(r, {"upload"}, number)
                    ELSE IF saveFails
                    THEN /\ run' = [run EXCEPT ![r] =
                                       AfterPhase3(RecordFinalizeError(st1, number))]
                         /\ episodes' = episodes
                         /\ calls' = Log(r, {"upload", "save"}, number)
                    ELSE /\ run' = [run EXCEPT ![r] = AfterPhase3(KeepGenerated(st1, doc))]
                         /\ episodes' = Upsert(episodes, doc.id, doc)
                         /\ calls' = Log(r, {"upload", "save", "upsert"}, number)
    /\ UNCHANGED <<sources, tts, textfn, progress, psd, retry, skills, topics_per_episode>>

Main(r) ==
    \/ Start(r)
    \/ PrepareUnit(r)
    \/ \E k \in 1..MaxBatchSize : SynthComplete(r, k)
    \/ FinalizeUnit(r)

\* One invocation of main() against a store that earlier runs may have filled.
NextBatch == Main("A")

SpecBatch == InitBatch /\ [][NextBatch]_vars

\* ----------------------------------------------------------- SpecMarked
\* One invocation of main() against an empty store, for an outline of one
\* skill domain, with a narration engine whose output may end with the
\* continuation marker.
InitMarked ==
    /\ tts = IdleTts /\ textfn = IdleText /\ progress = IdleProgress
    /\ skills \in {o \in Outlines : Len(o) = 1}
    /\ topics_per_episode \in 1..MaxTopicsPerEpisode
    /\ run = [r \in Invocations |-> IdleRun]
    /\ episodes = <<>>
    /\ blobs = <<>>
    /\ calls = {}
    /\ faults = 0
    /\ sources = <<>>
    /\ psd = [pc |-> "idle", endings |-> EngineEndings]
    /\ retry = IdleRetry

SpecMarked == InitMarked /\ [][NextBatch]_vars

\* ------------------------------------------------------------- SpecPool
\* One invocation of main() with the worker pool of Phase 2 spelled out:
\* tts holds the ThreadPoolExecutor, its width and the tasks a worker thread
\* is running.  A submitted task is "pending" in run[r].tasks until its
\* future is handed to the as_completed loop.

\* TTS_MAX_WORKERS is read from the environment, here 1..MaxWorkers.
MaxWorkers == 2

TTS_MAX_WORKERS == tts.max_workers

\* The submitted tasks no worker has taken yet.
Queued(r) == {k \in DOMAIN run[r].tasks : run[r].tasks[k] = "pending" /\ k \notin tts.running}

\* Mutant of WorkerIsFree: the pool starts a thread per submitted task.
WorkerAlwaysFree(running) == TRUE

\* ThreadPoolExecutor: a task starts only while fewer than max_workers run.
WorkerIsFree(running) == Cardinality(running) < TTS_MAX_WORKERS

InitPool ==
    /\ skills \in Outlines
    /\ topics_per_episode \in 1..MaxTopicsPerEpisode
    /\ run = [r \in Invocations |-> IdleRun]
    /\ episodes = <<>>
    /\ blobs = <<>>
    /\ calls = {}
    /\ faults = 0
    /\ sources = <<>>
    /\ psd = IdleDomain
    /\ retry = IdleRetry
    /\ textfn = IdleText
    /\ progress = IdleProgress
    /\ \E w \in 1..MaxWorkers : tts = [pc |-> "pool", max_workers |-> w, running |-> {}]

\* A worker thread takes the oldest queued task (the work queue is FIFO).
WorkerStart(r) ==
    /\ run[r].pc = "synth"
    /\ Queued(r) # {}
    /\ WorkerIsFree(tts.running)
    /\ LET k == CHOOSE q \in Queued(r) : \A x \in Queued(r) : q <= x
       IN  tts' = [tts EXCEPT !.running = tts.running \cup {k}]
    /\ UNCHANGED <<sources, skills, topics_per_episode, run, episodes, blobs, calls, faults,
                   psd, retry, textfn, progress>>

\* The task a worker runs ends, and as_completed hands its future to the loop.
WorkerFinish(r, k) ==
    /\ k \in tts.running
    /\ SynthCompleteStep(r, k)
    /\ tts' = [tts EXCEPT !.running = tts.running \ {k}]

NextPool ==
    \/ Start("A")
    \/ PrepareUnit("A")
    \/ WorkerStart("A")
    \/ \E k \in 1..MaxBatchSize : WorkerFinish("A", k)
    \/ FinalizeUnit("A")

SpecPool == InitPool /\ [][NextPool]_vars

\* Two invocations of main() of one workflow run, in any interleaving: the
\* workflow starts from an empty store and passes the same batch size to every
\* matrix job.
InitPair == InitBatch /\ episodes = <<>>

SameBatchSize(rs) ==
    \A a \in Invocations, b \in Invocations :
        rs[a].pc # "idle" /\ rs[b].pc # "idle" => rs[a].batch_size = rs[b].batch_size

StartJob(r) == Start(r) /\ SameBatchSize(run')

NextPair ==
    \E r \in Invocations :
        \/ StartJob(r)
        \/ PrepareUnit(r)
        \/ \E k \in 1..MaxBatchSize : SynthComplete(r, k)
        \/ FinalizeUnit(r)

SpecPair == InitPair /\ [][NextPair]_vars

\* ----------------------------------------------------------- SpecDomain

\* process_skill_domain: max_parts = 5.
max_parts == 5
\* process_skill_domain: MIN_WORDS_PER_PART defaults to "1200".
base_min_words == 1200
\* process_skill_domain: max_length_retries = 1.
max_length_retries == 1

\* The whitespace-separated words of an ending: the first piece of the marker
\* has 7 words and ends in a space, the second is one word; a first piece
\* right after a second piece continues its word, and so does a second
\* piece after a second piece.
EndingWords(ending) ==
    LET first == CONTINUATION_MARKER[1]
        wordsAt(i) ==
            IF ending[i] = first
            THEN (IF i > 1 /\ ending[i - 1] # first THEN 6 ELSE 7)
            ELSE (IF i > 1 /\ ending[i - 1] # first THEN 0 ELSE 1)
        sum[i \in 0..Len(ending)] == IF i = 0 THEN 0 ELSE sum[i - 1] + wordsAt(i)
    IN  sum[Len(ending)]

\* len(narration.split()).
WordCount(narration) == narration.words + EndingWords(narration.ending)

\* Mutant of GrowTarget: the retry asks for the same number of words.
GrowTargetUnchanged(min_words) == min_words

\* int(min_words * 1.15).
GrowTarget(min_words) == (min_words * 115) \div 100

\* Mutant of LoopContinues: the part loop has no bound.
LoopContinuesUnbounded(part_number) == TRUE

\* while part_number <= max_parts.
LoopContinues(part_number) == part_number <= max_parts

\* The title of a part: episode_title for a first part when one is given
\* (None is <<>>), otherwise the domain with " (Part N)" after the first part.
DomainTitle(skill_domain, title, part_number) ==
    IF part_number = 1 /\ title # <<>>
    THEN title
    ELSE IF part_number > 1 THEN <<skill_domain, "Part", part_number>>
         ELSE <<skill_domain>>

\* narration[:500] + "...".
Excerpt(narration) == <<"excerpt", narration>>

\* The episode the steps 3 to 6 of one part work on.
PartEpisode(d) ==
    [episode_number |-> d.current_episode_number,
     skill_domain   |-> d.skill_domain,
     skill_topics   |-> d.skill_topics,
     episode_title  |-> DomainTitle(d.skill_domain, d.episode_title, d.part_number),
     narration      |-> d.narration]

\* save_episode as process_skill_domain calls it: content_hash is the hash
\* of the retrieved content.
PartDoc(d) == [EpisodeDoc(PartEpisode(d)) EXCEPT !.contentHash = "retrieved"]

\* The episode_title argument: absent, a title of the caller's own, or the
\* text "d1 (Part 2)".
EpisodeTitleArgs == {<<>>, <<"Intro">>, <<"d1", "Part", 2>>}

InitDomain ==
    /\ tts = IdleTts /\ textfn = IdleText /\ progress = IdleProgress
    /\ skills = <<>>
    /\ topics_per_episode = 1
    /\ run = [r \in Invocations |-> IdleRun]
    /\ episodes = <<>>
    /\ blobs = <<>>
    /\ calls = {}
    /\ faults = 0
    /\ sources = <<>>
    /\ retry = IdleRetry
    /\ \E n \in 1..MaxEpisodeArg, title \in EpisodeTitleArgs :
         psd = [pc |-> "retrieve", episode_number |-> n, skill_domain |-> "d1",
                skill_topics |-> <<"t1">>, episode_title |-> title,
                part_number |-> 1, current_episode_number |-> n,
                topics_covered_so_far |-> <<>>, attempt |-> 0,
                min_words |-> base_min_words, has_more |-> FALSE,
                raw |-> <<>>, narration |-> <<>>, episode_docs |-> <<>>, gen_calls |-> 0,
                parts_generated |-> 0]

\* The top of the part loop: the next part starts from the base target, or
\* the loop is left and episode_docs is returned.
EnterPart(d) ==
    IF LoopContinues(d.part_number)
    THEN [d EXCEPT !.pc = "generate", !.attempt = 0, !.min_words = base_min_words]
    ELSE [d EXCEPT !.pc = "returned"]

\* Step 1: retrieve_content.
RetrieveContent ==
    /\ psd.pc = "retrieve"
    /\ \E fails \in BOOLEAN :
         psd' = IF fails THEN [psd EXCEPT !.pc = "raised"] ELSE EnterPart(psd)
    /\ UNCHANGED <<sources, tts, textfn, progress, skills, topics_per_episode, run, episodes, blobs, calls, faults, retry>>

\* Step 2: one pass of `for attempt in range(max_length_retries + 1)`.
GenerateNarration ==
    /\ psd.pc = "generate"
    /\ \E fails \in BOOLEAN, raw \in EngineOutputs :
         LET called    == [psd EXCEPT !.gen_calls = psd.gen_calls + 1]
             narration == clean_narration(raw)
             checked   == [called EXCEPT !.has_more = needs_continuation(raw),
                                         !.raw = raw,
                                         !.narration = narration]
         IN  psd' =
               IF fails THEN [called EXCEPT !.pc = "raised"]
               ELSE IF WordCount(narration) >= psd.min_words
                       \/ psd.attempt = max_length_retries
               THEN [checked EXCEPT !.pc = "finish",
                                    !.parts_generated = psd.parts_generated + 1]
               ELSE [checked EXCEPT !.min_words = GrowTarget(psd.min_words),
                                    !.attempt = psd.attempt + 1]
    /\ UNCHANGED <<sources, tts, textfn, progress, skills, topics_per_episode, run, episodes, blobs, calls, faults, retry>>

\* Steps 3 to 6 for the part, then the end of the loop body.
FinishPart ==
    /\ psd.pc = "finish"
    /\ LET ep  == PartEpisode(psd)
           doc == PartDoc(psd)
       IN  \E synthFails \in BOOLEAN, written \in 0..3, saveFails \in BOOLEAN :
             /\ synthFails => written = 0 /\ ~saveFails
             /\ saveFails => written = 3
             /\ blobs' = UploadBlobs(ep, AudioResult(ep), written)
             /\ IF synthFails \/ written < 3 \/ saveFails
                THEN /\ psd' = [psd EXCEPT !.pc = "raised"]
                     /\ episodes' = episodes
                ELSE /\ episodes' = Upsert(episodes, doc.id, doc)
                     /\ LET saved == [psd EXCEPT !.episode_docs = Append(psd.episode_docs, doc)]
                        IN  psd' =
                              IF ~psd.has_more
                              THEN [saved EXCEPT !.pc = "returned"]
                              ELSE EnterPart(
                                     [saved EXCEPT
                                        !.part_number = psd.part_number + 1,
                                        !.current_episode_number = psd.current_episode_number + 1,
                                        !.topics_covered_so_far = Excerpt(psd.narration)])
    /\ UNCHANGED <<sources, tts, textfn, progress, skills, topics_per_episode, run, calls, faults, retry>>

NextDomain == RetrieveContent \/ GenerateNarration \/ FinishPart

\* The function is sequential code: its next step is always taken.
SpecDomain == InitDomain /\ [][NextDomain]_vars /\ WF_vars(NextDomain)

\* ------------------------------------------------------------ SpecRetry

\* call_openai_with_retry: base_delay = 2.
base_delay == 2

\* Python's b ** n for n >= 0.
RECURSIVE Pow(_, _)
Pow(b, n) == IF n = 0 THEN 1 ELSE b * Pow(b, n - 1)

\* call_openai_with_retry: delay = base_delay * (2 ** attempt).
BackoffDelay(attempt) == base_delay * Pow(2, attempt)

\* Mutant of IsFinalAttempt: the comparison is off by one.
IsFinalAttemptOffByOne(attempt, max_retries) == attempt = max_retries

\* call_openai_with_retry: if attempt == max_retries - 1: raise.
IsFinalAttempt(attempt, max_retries) == attempt = max_retries - 1

\* Mutant of IsRateLimit: every failure of the upstream call is retried.
IsAnyFailure(outcome) == outcome \in {"RateLimitError", "APIError"}

\* except RateLimitError: the only failure the wrapper catches.
IsRateLimit(outcome) == outcome = "RateLimitError"

\* What chat.completions.create may do: return a response, raise
\* RateLimitError, or raise another error.
UpstreamOutcomes == {"response_1", "response_2", "RateLimitError", "APIError"}

\* The keyword arguments the two callers pass through to the upstream call.
CallerKwargs ==
    {[model |-> "gpt-4o", temperature |-> "0.7", max_tokens |-> 4000],
     [model |-> "gpt-4o", temperature |-> "0.3", max_tokens |-> 8000]}

InitRetry ==
    /\ tts = IdleTts /\ textfn = IdleText /\ progress = IdleProgress
    /\ skills = <<>>
    /\ topics_per_episode = 1
    /\ run = [r \in Invocations |-> IdleRun]
    /\ episodes = <<>>
    /\ blobs = <<>>
    /\ calls = {}
    /\ faults = 0
    /\ sources = <<>>
    /\ psd = IdleDomain
    /\ \E m \in 0..MaxRetriesArg, kw \in CallerKwargs :
         retry = [pc |-> "loop", max_retries |-> m, kwargs |-> kw, attempt |-> 0,
                  upstream_calls |-> 0, sent |-> <<>>, outcomes |-> <<>>, sleeps |-> <<>>, delay |-> 0,
                  last_error |-> <<>>, result |-> <<>>]

\* One pass of `for attempt in range(max_retries)` up to the sleep: the
\* upstream call, and what its outcome leads to.
RetryCall ==
    /\ retry.pc = "loop"
    /\ retry.attempt < retry.max_retries
    /\ \E outcome \in UpstreamOutcomes :
         LET n == retry.upstream_calls + 1
             called == [retry EXCEPT !.upstream_calls = n,
                                     !.sent = Append(retry.sent, retry.kwargs),
                                     !.outcomes = Append(retry.outcomes, outcome)]
         IN  retry' =
               IF IsRateLimit(outcome)
               THEN IF IsFinalAttempt(retry.attempt, retry.max_retries)
                    THEN [called EXCEPT !.pc = "raised", !.result = <<outcome, n>>,
                                        !.last_error = <<outcome, n>>]
                    ELSE [called EXCEPT !.pc = "sleeping",
                                        !.last_error = <<outcome, n>>,
                                        !.delay = BackoffDelay(retry.attempt)]
               ELSE IF outcome = "APIError"
               THEN [called EXCEPT !.pc = "raised", !.result = <<outcome, n>>]
               ELSE [called EXCEPT !.pc = "returned", !.result = <<outcome, n>>]
    /\ UNCHANGED <<sources, tts, textfn, progress, skills, topics_per_episode, run, episodes, blobs, calls, faults, psd>>

\* time.sleep(delay) returns and the loop takes the next attempt.
RetrySleep ==
    /\ retry.pc = "sleeping"
    /\ retry' = [retry EXCEPT !.pc = "loop", !.attempt = retry.attempt + 1,
                              !.sleeps = Append(retry.sleeps, retry.delay)]
    /\ UNCHANGED <<sources, tts, textfn, progress, skills, topics_per_episode, run, episodes, blobs, calls, faults, psd>>

\* The loop ran out: raise Exception("Max retries exceeded for OpenAI API call").
RetryExhausted ==
    /\ retry.pc = "loop"
    /\ retry.attempt >= retry.max_retries
    /\ retry' = [retry EXCEPT !.pc = "raised",
                              !.result = <<"Max retries exceeded", retry.upstream_calls>>]
    /\ UNCHANGED <<sources, tts, textfn, progress, skills, topics_per_episode, run, episodes, blobs, calls, faults, psd>>

NextRetry == RetryCall \/ RetrySleep \/ RetryExhausted

SpecRetry == InitRetry /\ [][NextRetry]_vars

\* ------------------------------------------------------------ SpecSplit

\* A text is a sequence of characters: a letter, a space, a line feed.
Chars == {"a", " ", "\n"}
Texts(n) == UNION {[1..k -> Chars] : k \in 0..n}

\* str.isspace, and \s of the re module.
IsSpace(c) == c \in {" ", "\n"}

RECURSIVE lstrip(_)
lstrip(s) == IF s # <<>> /\ IsSpace(Head(s)) THEN lstrip(Tail(s)) ELSE s

RECURSIVE rstrip(_)
rstrip(s) ==
    IF s # <<>> /\ IsSpace(s[Len(s)]) THEN rstrip(SubSeq(s, 1, Len(s) - 1)) ELSE s

\* str.strip().
strip(s) == rstrip(lstrip(s))

\* str.split(): the maximal runs of characters that are not whitespace.
RECURSIVE str_split(_)
str_split(s) ==
    LET t == lstrip(s)
        S == {k \in 1..Len(t) : IsSpace(t[k])}
        e == IF S = {} THEN Len(t) + 1 ELSE CHOOSE k \in S : \A j \in S : k <= j
    IN  IF t = <<>> THEN <<>>
        ELSE <<SubSeq(t, 1, e - 1)>> \o str_split(SubSeq(t, e, Len(t)))

\* The end of the match of \n\s*\n that starts at i, 0 when there is none:
\* \s* is greedy, so the match ends at the last line feed of the whitespace
\* run.
MatchEnd(s, i) ==
    LET J == {j \in (i + 1)..Len(s) :
                 s[j] = "\n" /\ \A k \in (i + 1)..(j - 1) : IsSpace(s[k])}
    IN  IF s[i] = "\n" /\ J # {} THEN CHOOSE j \in J : \A k \in J : k <= j ELSE 0

\* re.split(r"\n\s*\n", s).
RECURSIVE re_split(_)
re_split(s) ==
    LET I == {i \in 1..Len(s) : MatchEnd(s, i) > 0}
        i == CHOOSE x \in I : \A y \in I : x <= y
    IN  IF I = {} THEN <<s>>
        ELSE <<SubSeq(s, 1, i - 1)>> \o re_split(SubSeq(s, MatchEnd(s, i) + 1, Len(s)))

\* [p.strip() for p in re.split(r"\n\s*\n", narration) if p.strip()].
Paragraphs(narration) ==
    LET pieces == re_split(narration)
    IN  SelectSeq([k \in DOMAIN pieces |-> strip(pieces[k])], LAMBDA q : q # <<>>)

\* sep.join(parts).
RECURSIVE Join(_, _)
Join(parts, sep) ==
    IF parts = <<>> THEN <<>>
    ELSE IF Len(parts) = 1 THEN parts[1]
    ELSE parts[1] \o sep \o Join(Tail(parts), sep)

\* Mutant of ParagraphSeparator: the paragraphs of a segment are joined by a
\* single line feed.
LineSeparator == <<"\n">>

\* "\n\n", the separator the paragraphs of a segment are joined with.
ParagraphSeparator == <<"\n", "\n">>

\* Mutant of ShouldFlush: the segment in progress is never closed.
ShouldFlushNever(current, current_words, words, max_words_per_segment) == FALSE

\* if current and current_words + words > max_words_per_segment.
ShouldFlush(current, current_words, words, max_words_per_segment) ==
    current # <<>> /\ current_words + words > max_words_per_segment

\* The loop of split_narration_for_tts over the paragraphs, given by their
\* word counts, from paragraph k on; a segment is the sequence of the indices
\* of its paragraphs.
RECURSIVE GroupLoop(_, _, _, _, _, _)
GroupLoop(word_counts, max_words_per_segment, k, segments, current, current_words) ==
    IF k > Len(word_counts)
    THEN IF current # <<>> THEN Append(segments, current) ELSE segments
    ELSE LET flush == ShouldFlush(current, current_words, word_counts[k],
                                  max_words_per_segment)
         IN  GroupLoop(word_counts, max_words_per_segment, k + 1,
                       IF flush THEN Append(segments, current) ELSE segments,
                       Append(IF flush THEN <<>> ELSE current, k),
                       (IF flush THEN 0 ELSE current_words) + word_counts[k])

GroupParagraphs(word_counts, max_words_per_segment) ==
    GroupLoop(word_counts, max_words_per_segment, 1, <<>>, <<>>, 0)

\* len(p.split()).
WordsIn(p) == Len(str_split(p))

split_narration_for_tts(narration, max_words_per_segment) ==
    LET paragraphs == Paragraphs(narration)
        groups == GroupParagraphs([k \in DOMAIN paragraphs |-> WordsIn(paragraphs[k])],
                                  max_words_per_segment)
    IN  [g \in DOMAIN groups |->
           strip(Join([k \in DOMAIN groups[g] |-> paragraphs[groups[g][k]]],
                      ParagraphSeparator))]

InitSplit ==
    /\ skills = <<>>
    /\ topics_per_episode = 1
    /\ run = [r \in Invocations |-> IdleRun]
    /\ episodes = <<>>
    /\ blobs = <<>>
    /\ calls = {}
    /\ faults = 0
    /\ sources = <<>>
    /\ psd = IdleDomain
    /\ retry = IdleRetry
    /\ tts = IdleTts
    /\ progress = IdleProgress
    /\ \E narration \in Texts(MaxChars), m \in 0..MaxWordsBound :
         textfn = [pc |-> "called", narration |-> narration,
                   max_words_per_segment |-> m, segments |-> <<>>]

SplitNarration ==
    /\ textfn.pc = "called"
    /\ textfn' = [textfn EXCEPT
                    !.pc = "returned",
                    !.segments = split_narration_for_tts(textfn.narration,
                                                         textfn.max_words_per_segment)]
    /\ UNCHANGED <<sources, skills, topics_per_episode, run, episodes, blobs, calls, faults,
                   psd, retry, tts, progress>>

NextSplit == SplitNarration

SpecSplit == InitSplit /\ [][NextSplit]_vars

\* ------------------------------------------------------------- SpecSsml

\* For the markup builder a narration is a sequence of characters and
\* markers: a letter, a space, a line feed, the three characters escape()
\* rewrites, the control character U+0001 (written "^A"), and the markers
\* [PAUSE], [HOST] and [EXPERT], each taken as a whole.
NarrationTokens == {"a", " ", "\n", "&", "<", ">", "^A", "[PAUSE]", "[HOST]", "[EXPERT]"}
MarkedTexts(n) == UNION {[1..k -> NarrationTokens] : k \in 0..n}

\* The markup is a sequence of <<kind, name, value>>: a character of text, an
\* entity reference, an opening tag (value: its voice name), a closing tag,
\* an empty element (value: the time of the break).
TextOf(c) == <<"text", c, "">>
BreakOf(time) == <<"empty", "break", time>>
IsSpaceMarkup(t) == t[1] = "text" /\ IsSpace(t[2])

\* Mutant of EscapeChar: only the ampersand is escaped.
EscapeCharAmpersandOnly(c) ==
    IF c = "&" THEN <<"entity", "amp", "">> ELSE TextOf(c)

\* xml.sax.saxutils.escape, character by character.
EscapeChar(c) ==
    IF c = "&" THEN <<"entity", "amp", "">>
    ELSE IF c = "<" THEN <<"entity", "lt", "">>
    ELSE IF c = ">" THEN <<"entity", "gt", "">>
    ELSE TextOf(c)

escape(ln) == [k \in DOMAIN ln |-> EscapeChar(ln[k])]

\* escaped_ln.replace("[PAUSE]", '<break time="500ms"/>').
ReplacePause(escaped_ln) ==
    [k \in DOMAIN escaped_ln |->
        IF escaped_ln[k] = TextOf("[PAUSE]") THEN BreakOf("500ms") ELSE escaped_ln[k]]

\* text.replace("[HOST]", "").replace("[EXPERT]", "").
RemoveSpeakerMarkers(s) == SelectSeq(s, LAMBDA c : c \notin {"[HOST]", "[EXPERT]"})

\* str.splitlines().
RECURSIVE splitlines(_)
splitlines(s) ==
    LET N == {k \in 1..Len(s) : s[k] = "\n"}
        e == CHOOSE k \in N : \A j \in N : k <= j
    IN  IF s = <<>> THEN <<>>
        ELSE IF N = {} THEN <<s>>
        ELSE <<SubSeq(s, 1, e - 1)>> \o splitlines(SubSeq(s, e + 1, Len(s)))

\* The out_parts of one line.
LineParts(ln) ==
    IF strip(ln) = <<>> THEN <<<<BreakOf("300ms")>>>>
    ELSE <<ReplacePause(escape(ln)), <<BreakOf("200ms")>>>>

RECURSIVE OutParts(_)
OutParts(lines) ==
    IF lines = <<>> THEN <<>> ELSE LineParts(Head(lines)) \o OutParts(Tail(lines))

RECURSIVE lstripMarkup(_)
lstripMarkup(m) ==
    IF m # <<>> /\ IsSpaceMarkup(Head(m)) THEN lstripMarkup(Tail(m)) ELSE m

RECURSIVE rstripMarkup(_)
rstripMarkup(m) ==
    IF m # <<>> /\ IsSpaceMarkup(m[Len(m)])
    THEN rstripMarkup(SubSeq(m, 1, Len(m) - 1)) ELSE m

\* build_ssml_from_narration._normalize_text.
normalize_text(txt) ==
    LET lines == splitlines(RemoveSpeakerMarkers(txt))
        parts == OutParts([k \in DOMAIN lines |-> rstrip(lines[k])])
    IN  rstripMarkup(lstripMarkup(Join(parts, <<TextOf(" ")>>)))

\* f'<voice name="{voice}"><prosody rate="-5%">{inner}</prosody></voice>'.
VoiceSpan(voice, inner) ==
    <<<<"open", "voice", voice>>, <<"open", "prosody", "-5%">>>> \o inner
        \o <<<<"close", "prosody", "">>, <<"close", "voice", "">>>>

\* speak_open + body + speak_close.
Speak(body) == <<<<"open", "speak", "en-US">>>> \o body \o <<<<"close", "speak", "">>>>

\* re.split(r"(\[HOST\]|\[EXPERT\])", narration): the texts between the
\* speaker markers and the markers themselves (as one-element texts).
RECURSIVE SplitAtSpeakerMarkers(_)
SplitAtSpeakerMarkers(s) ==
    LET N == {k \in 1..Len(s) : s[k] \in {"[HOST]", "[EXPERT]"}}
        e == CHOOSE k \in N : \A j \in N : k <= j
    IN  IF N = {} THEN <<s>>
        ELSE <<SubSeq(s, 1, e - 1), <<s[e]>>>> \o SplitAtSpeakerMarkers(SubSeq(s, e + 1, Len(s)))

\* The loop over the tokens of a podcast narration: the voice spans.
RECURSIVE PodcastChunks(_, _, _, _)
PodcastChunks(tokens, current, host_voice, expert_voice) ==
    IF tokens = <<>> THEN <<>>
    ELSE LET tok == Head(tokens) IN
         IF tok = <<"[HOST]">> THEN PodcastChunks(Tail(tokens), "HOST", host_voice, expert_voice)
         ELSE IF tok = <<"[EXPERT]">>
         THEN PodcastChunks(Tail(tokens), "EXPERT", host_voice, expert_voice)
         ELSE IF strip(tok) = <<>>
         THEN PodcastChunks(Tail(tokens), current, host_voice, expert_voice)
         ELSE <<VoiceSpan(IF current = "HOST" THEN host_voice ELSE expert_voice,
                          normalize_text(tok))>>
              \o PodcastChunks(Tail(tokens), current, host_voice, expert_voice)

\* The markup build_ssml_from_narration builds, before it validates it.
BuiltSsml(narration, audio_format, instructional_voice, podcast_host_voice, podcast_expert_voice) ==
    IF audio_format = "podcast"
    THEN Speak(Join(PodcastChunks(SplitAtSpeakerMarkers(narration), "HOST",
                                  podcast_host_voice, podcast_expert_voice),
                    <<TextOf(" ")>>))
    ELSE Speak(VoiceSpan(instructional_voice, normalize_text(narration)))

\* A character XML 1.0 allows in character data as it stands.
IsLegalChar(c) == c \notin {"&", "<", "^A"}

\* The parse of ET.fromstring from token k on, with the open elements on
\* the stack and the number of root elements seen so far.
RECURSIVE ParsesFrom(_, _, _, _)
ParsesFrom(m, k, stack, roots) ==
    IF k > Len(m) THEN stack = <<>> /\ roots = 1
    ELSE LET t == m[k] IN
         IF t[1] = "open"
         THEN (stack # <<>> \/ roots = 0)
              /\ ParsesFrom(m, k + 1, <<t[2]>> \o stack,
                            IF stack = <<>> THEN roots + 1 ELSE roots)
         ELSE IF t[1] = "close"
         THEN stack # <<>> /\ Head(stack) = t[2] /\ ParsesFrom(m, k + 1, Tail(stack), roots)
         ELSE IF t[1] = "text" /\ stack = <<>>
         THEN IsSpace(t[2]) /\ ParsesFrom(m, k + 1, stack, roots)
         ELSE IF t[1] = "text"
         THEN IsLegalChar(t[2]) /\ ParsesFrom(m, k + 1, stack, roots)
         ELSE stack # <<>> /\ ParsesFrom(m, k + 1, stack, roots)

\* ET.fromstring(ssml) does not raise.
WellFormed(m) == ParsesFrom(m, 1, <<>>, 0)

InitSsml ==
    /\ skills = <<>>
    /\ topics_per_episode = 1
    /\ run = [r \in Invocations |-> IdleRun]
    /\ episodes = <<>>
    /\ blobs = <<>>
    /\ calls = {}
    /\ faults = 0
    /\ sources = <<>>
    /\ psd = IdleDomain
    /\ retry = IdleRetry
    /\ tts = IdleTts
    /\ progress = IdleProgress
    /\ \E narration \in MarkedTexts(MaxNarrationTokens),
          audio_format \in {"instructional", "podcast"} :
         textfn = [pc |-> "called", narration |-> narration,
                   audio_format |-> audio_format, ssml |-> <<>>]

\* build_ssml_from_narration with the default voices: the markup is built,
\* validated with ET.fromstring, and returned when the validation passes.
BuildSsml ==
    /\ textfn.pc = "called"
    /\ LET ssml == BuiltSsml(textfn.narration, textfn.audio_format,
                             "en-US-AndrewNeural", "en-US-GuyNeural", "en-US-TonyNeural")
       IN  textfn' = IF WellFormed(ssml)
                     THEN [textfn EXCEPT !.pc = "returned", !.ssml = ssml]
                     ELSE [textfn EXCEPT !.pc = "raised"]
    /\ UNCHANGED <<sources, skills, topics_per_episode, run, episodes, blobs, calls, faults,
                   psd, retry, tts, progress>>

NextSsml == BuildSsml

SpecSsml == InitSsml /\ [][NextSsml]_vars

-----------------------------------------------------------------------------
\* sanitize_ssml (generate_episodes.py): the markup returned by the language
\* model is cleaned before synthesis.  The markup is a speak root that holds
\* voice elements and some content.  A voice tag is its list of attributes;
\* an attribute is written key="value", or key ="value" when `spaced`.

MaxVoiceElements == 2
MaxAttributes == 2

AttributeKeys == {"name", "x-name"}
VoiceNames == {"en-US-GuyNeural", "en-US-EvilNeural", ""}
RootLanguages == {"none", "de-DE"}
ContentTokens == {"a", "&", "^A", "<lang>", "</lang>"}

Attributes == [key : AttributeKeys, spaced : BOOLEAN, value : VoiceNames]

SeqsUpTo(S, lo, hi) == UNION {[1..n -> S] : n \in lo..hi}

VoiceTags == SeqsUpTo(Attributes, 1, MaxAttributes)

Markups ==
    [lang : RootLanguages,
     voices : SeqsUpTo(VoiceTags, 1, MaxVoiceElements),
     content : SeqsUpTo(ContentTokens, 0, 1)]

\* re.sub(r"[\x00-\x08\x0B\x0C\x0E-\x1F]", "", ...)
RemoveControlChars(content) == SelectSeq(content, LAMBDA t : t # "^A")

\* re.sub(r"</?lang\b[^>]*>", "", ...): opening and closing tags are removed
\* one by one, the inner content stays.
RemoveLangWrappers(content) ==
    SelectSeq(content, LAMBDA t : t \notin {"<lang>", "</lang>"})

\* The speak root gets xml:lang="en-US", replaced or inserted.
ForceRootLanguage(lang) == "en-US"

common_voices ==
    {"en-US-GuyNeural", "en-US-TonyNeural", "en-US-AndrewNeural", "en-US-BrianNeural",
     "en-US-AvaNeural", "en-US-JennyNeural", "en-US-AriaNeural",
     "en-US-Andrew:DragonHDLatestNeural", "en-US-Ava:DragonHDLatestNeural",
     "en-US-Brian:DragonHDLatestNeural", "en-US-Emma:DragonHDLatestNeural"}

allowed_voices(instructional_voice, podcast_host_voice, podcast_expert_voice) ==
    common_voices \cup {instructional_voice, podcast_host_voice, podcast_expert_voice}

\* What (\bname=)(['\"])([^'\"]+)(\2) can match: a key that ends in the word
\* `name` (name, x-name), `=` directly after it, a quoted value of one
\* character or more.
Matchable(attr) == /\ attr.key \in {"name", "x-name"}
                   /\ ~attr.spaced
                   /\ attr.value # ""

\* <voice\b[^>]*\bname= is greedy: of the matchable attributes of a tag the
\* last one is taken, and the tag is matched once.
MatchedAttribute(tag) ==
    LET found == {i \in 1..Len(tag) : Matchable(tag[i])}
    IN  IF found = {} THEN 0 ELSE CHOOSE i \in found : \A j \in found : j <= i

\* _voice_repl
voice_repl(tag, allowed, default_voice) ==
    LET i == MatchedAttribute(tag)
    IN  IF i = 0 \/ tag[i].value \in allowed
        THEN tag
        ELSE [tag EXCEPT ![i].value = default_voice]

\* re.sub(r"&(?!amp;|lt;|...)", "&amp;", ...)
EscapeStrayAmpersands(content) ==
    [i \in 1..Len(content) |-> IF content[i] = "&" THEN "&amp;" ELSE content[i]]

Sanitized(ssml, instructional_voice, podcast_host_voice, podcast_expert_voice) ==
    LET allowed == allowed_voices(instructional_voice, podcast_host_voice,
                                  podcast_expert_voice)
        default_voice == instructional_voice
    IN  [lang |-> ForceRootLanguage(ssml.lang),
         voices |-> [v \in 1..Len(ssml.voices) |->
                        voice_repl(ssml.voices[v], allowed, default_voice)],
         content |-> EscapeStrayAmpersands(
                        RemoveLangWrappers(RemoveControlChars(ssml.content)))]

\* ET.fromstring: a tag may not carry the same attribute twice, the content
\* may hold no control character and no bare ampersand, tags are balanced.
ParsesAsXml(ssml) ==
    /\ \A v \in 1..Len(ssml.voices) :
          \A i, j \in 1..Len(ssml.voices[v]) :
             ssml.voices[v][i].key = ssml.voices[v][j].key => i = j
    /\ \A i \in 1..Len(ssml.content) : ssml.content[i] \in {"a", "&amp;"}

\* The name of a voice element, as a parser reads it: the value of its
\* attribute `name`, whatever the spacing around `=`.
VoiceNamesOf(ssml) ==
    UNION {{ssml.voices[v][i].value :
               i \in {k \in 1..Len(ssml.voices[v]) : ssml.voices[v][k].key = "name"}} :
           v \in 1..Len(ssml.voices)}

InitSanitize ==
    /\ skills = <<>>
    /\ topics_per_episode = 1
    /\ run = [r \in Invocations |-> IdleRun]
    /\ episodes = <<>>
    /\ blobs = <<>>
    /\ calls = {}
    /\ faults = 0
    /\ sources = <<>>
    /\ psd = IdleDomain
    /\ retry = IdleRetry
    /\ tts = IdleTts
    /\ progress = IdleProgress
    /\ \E ssml \in Markups :
         textfn = [pc |-> "called", ssml |-> ssml, ssml_out |-> ssml]

\* sanitize_ssml as generate_ssml calls it, with the default voices.
SanitizeSsml ==
    /\ textfn.pc = "called"
    /\ LET ssml_out == Sanitized(textfn.ssml, "en-US-AndrewNeural",
                                 "en-US-GuyNeural", "en-US-TonyNeural")
       IN  textfn' = IF ParsesAsXml(ssml_out)
                     THEN [textfn EXCEPT !.pc = "returned", !.ssml_out = ssml_out]
                     ELSE [textfn EXCEPT !.pc = "raised"]
    /\ UNCHANGED <<sources, skills, topics_per_episode, run, episodes, blobs, calls, faults,
                   psd, retry, tts, progress>>

NextSanitize == SanitizeSsml

SpecSanitize == InitSanitize /\ [][NextSanitize]_vars

-----------------------------------------------------------------------------
\* The expansion of the outline into episode units (main), on outlines large
\* enough for domains of several chunks.

\* A domain of these outlines has at most MaxOutlineTopics topics, and
\* --topics-per-episode is in 1..MaxChunkSize.
MaxOutlineTopics == 12
MaxChunkSize == 5
\* The expansion is run up to MaxExpansions times on the same outline.
MaxExpansions == 2

LargeOutlines ==
    UNION {{[d \in 1..n |-> [name |-> d, topics |-> [t \in 1..c[d] |-> t]]] :
                c \in [1..n -> 0..MaxOutlineTopics]} : n \in 1..MaxDomains}

InitFlatten ==
    /\ skills \in LargeOutlines
    /\ topics_per_episode \in 1..MaxChunkSize
    /\ run = [r \in Invocations |-> IdleRun]
    /\ episodes = <<>>
    /\ blobs = <<>>
    /\ calls = {}
    /\ faults = 0
    /\ sources = <<>>
    /\ psd = IdleDomain
    /\ retry = IdleRetry
    /\ tts = IdleTts
    /\ progress = IdleProgress
    /\ textfn = [pc |-> "called", expansions |-> 0, episode_units |-> <<>>]

\* main, from the filter of the domains to the end of the expansion loop.
ExpandUnits ==
    /\ textfn.pc \in {"called", "expanded"}
    /\ textfn.expansions < MaxExpansions
    /\ textfn' = [pc |-> "expanded", expansions |-> textfn.expansions + 1,
                  episode_units |-> episode_units]
    /\ UNCHANGED <<sources, skills, topics_per_episode, run, episodes, blobs, calls, faults,
                   psd, retry, tts, progress>>

NextFlatten == ExpandUnits

SpecFlatten == InitFlatten /\ [][NextFlatten]_vars

-----------------------------------------------------------------------------
\* update_progress (function_app.py): POST /api/progress/{userId}/{certificationId}
\* for one user and one certification.  progress.stored is the "progress"
\* object of the user's document in the userProgress container, the empty
\* map while there is no document.

\* At most MaxRequests requests are served, positions are in 0..MaxPosition.
MaxRequests == 2
MaxPosition == 2

EpisodeIds == {"ep-001", "ep-002"}

EpisodeProgress == [completed : BOOLEAN, position : 0..MaxPosition]

ProgressMaps == UNION {[ids -> EpisodeProgress] : ids \in SUBSET EpisodeIds}

\* The JSON bodies the clients send: one episode ("episodeId", "completed",
\* "position"), or a map of episodes under "progress" with no "episodeId"
\* (episodeId "" stands for the absent key).
SingleBodies ==
    [episodeId : EpisodeIds, completed : BOOLEAN, position : 0..MaxPosition,
     progress : {<<>>}]

BulkBodies ==
    [episodeId : {""}, completed : {FALSE}, position : {0},
     progress : ProgressMaps \ {<<>>}]

\* progress_doc["progress"][episode_id] = {"completed": ..., "position": ...}
SetEpisode(doc_progress, episode_id, completed, position) ==
    [e \in DOMAIN doc_progress \cup {episode_id} |->
        IF e = episode_id
        THEN [completed |-> completed, position |-> position]
        ELSE doc_progress[e]]

InitProgress ==
    /\ skills = <<>>
    /\ topics_per_episode = 1
    /\ run = [r \in Invocations |-> IdleRun]
    /\ episodes = <<>>
    /\ blobs = <<>>
    /\ calls = {}
    /\ faults = 0
    /\ sources = <<>>
    /\ psd = IdleDomain
    /\ retry = IdleRetry
    /\ tts = IdleTts
    /\ textfn = IdleText
    /\ progress = [pc |-> "serving", stored |-> <<>>, requests |-> 0,
                   body |-> <<>>, status |-> 0]

\* One request.  A body without episodeId is answered 400.  read_item that
\* raises for any reason starts from an empty document; upsert_item that
\* raises is answered 500 and stores nothing.
UpdateProgress ==
    /\ progress.pc = "serving"
    /\ progress.requests < MaxRequests
    /\ \E body \in SingleBodies \cup BulkBodies, read_raises, upsert_raises \in BOOLEAN :
         LET handled == [progress EXCEPT !.requests = progress.requests + 1,
                                         !.body = body]
             doc_progress == IF read_raises THEN <<>> ELSE progress.stored
         IN  /\ (progress.stored = <<>> => ~read_raises)
             /\ (body.episodeId = "" => ~read_raises /\ ~upsert_raises)
             /\ progress' =
                   IF body.episodeId = ""
                   THEN [handled EXCEPT !.status = 400]
                   ELSE IF upsert_raises
                   THEN [handled EXCEPT !.status = 500]
                   ELSE [handled EXCEPT
                           !.status = 200,
                           !.stored = SetEpisode(doc_progress, body.episodeId,
                                                 body.completed, body.position)]
    /\ UNCHANGED <<sources, skills, topics_per_episode, run, episodes, blobs, calls, faults,
                   psd, retry, tts, textfn>>

NextProgress == UpdateProgress

SpecProgress == InitProgress /\ [][NextProgress]_vars

\* -------------------------------------------------------------- SpecTts

\* synthesize_audio_with_chunking: if narration_words <= 900, the simple path.
simple_path_max_words == 900
\* split_narration_for_tts: max_words_per_segment defaults to 850.
default_max_words_per_segment == 850

\* For the synthesis a narration is the sequence of the word counts of its
\* paragraphs.
ParagraphWordCounts == {300, 500, 1000}
Narrations == UNION {[1..n -> ParagraphWordCounts] : n \in 1..MaxParagraphs}

RECURSIVE SumSeq(_)
SumSeq(q) == IF q = <<>> THEN 0 ELSE Head(q) + SumSeq(Tail(q))

\* The sizes in bytes of the MP3 file a completed synthesis may write.
AudioSizes == {24000, 48000}

\* synthesize_ssml: duration_seconds = (file_size * 8) / 192000.
DurationOf(file_size) == (file_size * 8) \div 192000

\* A file holds a sequence of blocks [of |-> what was synthesized, size |-> bytes].

\* base.with_name(f"{base.stem}.part{idx:02d}{base.suffix}").
PartPath(idx) == <<"episode", "part", idx>>
OutputPath == <<"episode", "mp3">>

\* os.remove(p) for every p of paths, except those whose removal fails.
RemoveAll(files, paths, failing) ==
    [q \in DOMAIN files \ ({paths[k] : k \in DOMAIN paths} \ failing) |-> files[q]]

\* out_f.write(in_f.read()) for every p of temp_paths, in order.
RECURSIVE Concatenate(_, _)
Concatenate(files, paths) ==
    IF paths = <<>> THEN <<>>
    ELSE files[Head(paths)] \o Concatenate(files, Tail(paths))

\* Mutant of AddDuration: the total is the duration of the last segment.
LastDuration(total_duration, dur) == dur

\* total_duration += dur.
AddDuration(total_duration, dur) == total_duration + dur

\* build_ssml_from_narration: the voices its parameters default to.
BuilderDefaultVoices ==
    [instructional_voice  |-> "en-US-AndrewNeural",
     podcast_host_voice   |-> "en-US-GuyNeural",
     podcast_expert_voice |-> "en-US-TonyNeural"]

\* main: the voices --instructional-voice, --podcast-host-voice and
\* --podcast-expert-voice default to.
ArgumentDefaultVoices ==
    [instructional_voice  |-> "en-US-Andrew:DragonHDLatestNeural",
     podcast_host_voice   |-> "en-US-Ava:DragonHDLatestNeural",
     podcast_expert_voice |-> "en-US-Andrew:DragonHDLatestNeural"]

\* The voices of a run: those of the command line, or the builder's own
\* when the command line names them.
ConfiguredVoices == {ArgumentDefaultVoices, BuilderDefaultVoices}

\* The wording of a paragraph does not matter to the voices: every narration
\* and every segment reads as one sentence, said by both speakers in a podcast.
WordingOf(audio_format) ==
    IF audio_format = "podcast" THEN <<"[HOST]", "a", "[EXPERT]", "a">> ELSE <<"a">>

\* generate_ssml with USE_LLM_SSML unset: the builder with the voices of the run.
generate_ssml(narration, audio_format, voices) ==
    BuiltSsml(narration, audio_format, voices.instructional_voice,
              voices.podcast_host_voice, voices.podcast_expert_voice)

\* synthesize_audio_with_chunking, line 803: build_ssml_from_narration(seg,
\* audio_format), the voices left to their defaults.
SegmentSsml(seg, audio_format) ==
    BuiltSsml(seg, audio_format, BuilderDefaultVoices.instructional_voice,
              BuilderDefaultVoices.podcast_host_voice,
              BuilderDefaultVoices.podcast_expert_voice)

InitTts ==
    /\ skills = <<>>
    /\ topics_per_episode = 1
    /\ run = [r \in Invocations |-> IdleRun]
    /\ episodes = <<>>
    /\ blobs = <<>>
    /\ calls = {}
    /\ faults = 0
    /\ sources = <<>>
    /\ psd = IdleDomain
    /\ retry = IdleRetry
    /\ textfn = IdleText
    /\ progress = IdleProgress
    /\ \E narration \in Narrations, audio_format \in {"instructional", "podcast"},
          voices \in ConfiguredVoices :
         tts = [pc |-> "called", narration |-> narration, segments |-> <<>>,
                audio_format |-> audio_format, voices |-> voices,
                ssml |-> generate_ssml(WordingOf(audio_format), audio_format, voices),
                ssml_segments |-> <<>>, spoken |-> <<>>,
                idx |-> 1, temp_paths |-> <<>>, total_duration |-> 0,
                files |-> <<>>, synthesized |-> <<>>, failed |-> 0,
                remove_failed |-> {}, result |-> <<>>]

\* synthesize_audio_with_chunking up to the first synthesis: the simple path
\* for a short narration, otherwise the segments.
ChooseSynthesisPath ==
    /\ tts.pc = "called"
    /\ tts' = IF SumSeq(tts.narration) <= simple_path_max_words
              THEN [tts EXCEPT !.pc = "simple"]
              ELSE LET segments == GroupParagraphs(tts.narration,
                                                   default_max_words_per_segment)
                   IN  IF segments = <<>>
                       THEN [tts EXCEPT !.pc = "raised"]
                       ELSE [tts EXCEPT !.pc = "segment", !.segments = segments,
                                        !.ssml_segments =
                                            [k \in DOMAIN segments |->
                                                SegmentSsml(WordingOf(tts.audio_format),
                                                            tts.audio_format)]]
    /\ UNCHANGED <<sources, skills, topics_per_episode, run, episodes, blobs, calls, faults,
                   psd, retry, textfn, progress>>

\* synthesize_audio: one synthesis of the whole markup into the output file.
SynthesizeWhole ==
    /\ tts.pc = "simple"
    /\ \E ok \in BOOLEAN, size \in AudioSizes, created \in BOOLEAN :
         tts' = IF ok
                THEN [tts EXCEPT !.pc = "returned",
                                 !.spoken = Append(@, tts.ssml),
                                 !.files = OutputPath :> <<[of |-> 0, size |-> size]>>,
                                 !.result = [audio_path |-> OutputPath,
                                             duration_seconds |-> DurationOf(size)]]
                ELSE [tts EXCEPT !.pc = "raised",
                                 !.spoken = Append(@, tts.ssml),
                                 !.files = IF created THEN OutputPath :> <<>> ELSE <<>>]
    /\ UNCHANGED <<sources, skills, topics_per_episode, run, episodes, blobs, calls, faults,
                   psd, retry, textfn, progress>>

\* synthesize_audio_segments: one pass of the loop over ssml_segments. The
\* synthesis completes, is cancelled (synthesize_ssml returns False) or raises;
\* when it does not complete, the part file it opened may be left behind.
SynthesizeSegment ==
    /\ tts.pc = "segment"
    /\ LET idx       == tts.idx
           part_path == PartPath(idx)
           tried     == [tts EXCEPT !.synthesized = Append(tts.synthesized, idx),
                                    !.spoken = Append(@, tts.ssml_segments[idx])]
       IN  \E outcome \in {"completed", "cancelled", "raised"},
              size \in AudioSizes, created \in BOOLEAN,
              failing \in SUBSET {tts.temp_paths[k] : k \in DOMAIN tts.temp_paths} :
             /\ outcome = "completed" => ~created /\ failing = {}
             /\ outcome = "raised" => failing = {}
             /\ outcome # "completed" => size = 24000
             /\ tts' =
                  IF outcome = "completed"
                  THEN [tried EXCEPT
                          !.files = (part_path :> <<[of |-> idx, size |-> size]>>) @@ tts.files,
                          !.temp_paths = Append(tts.temp_paths, part_path),
                          !.total_duration = AddDuration(tts.total_duration, DurationOf(size)),
                          !.idx = idx + 1,
                          !.pc = IF idx = Len(tts.segments) THEN "concatenate" ELSE "segment"]
                  ELSE LET left == IF created THEN (part_path :> <<>>) @@ tts.files
                                   ELSE tts.files
                       IN  IF outcome = "cancelled"
                           THEN [tried EXCEPT
                                   !.pc = "raised", !.failed = idx,
                                   !.remove_failed = failing,
                                   !.files = RemoveAll(left, tts.temp_paths, failing)]
                           ELSE [tried EXCEPT !.pc = "raised", !.failed = idx,
                                              !.files = left]
    /\ UNCHANGED <<sources, skills, topics_per_episode, run, episodes, blobs, calls, faults,
                   psd, retry, textfn, progress>>

\* synthesize_audio_segments after the loop: the parts are written to the
\* output file in order and removed; a removal that fails is ignored.
ConcatenateParts ==
    /\ tts.pc = "concatenate"
    /\ \E failing \in SUBSET {tts.temp_paths[k] : k \in DOMAIN tts.temp_paths} :
         LET written == (OutputPath :> Concatenate(tts.files, tts.temp_paths)) @@ tts.files
         IN  tts' = [tts EXCEPT
                       !.pc = "returned",
                       !.remove_failed = failing,
                       !.files = RemoveAll(written, tts.temp_paths, failing),
                       !.result = [audio_path |-> OutputPath,
                                   duration_seconds |-> tts.total_duration]]
    /\ UNCHANGED <<sources, skills, topics_per_episode, run, episodes, blobs, calls, faults,
                   psd, retry, textfn, progress>>

NextTts == ChooseSynthesisPath \/ SynthesizeWhole \/ SynthesizeSegment \/ ConcatenateParts

SpecTts == InitTts /\ [][NextTts]_vars

\* ---------------------------------------------------------- SpecSources

\* save_episode as called by finalize_episode of two parallel batch
\* invocations: A persists episode 1, B episode 2.  The units of one skill
\* domain carry the same sourceUrls (create_episode_units), so the two
\* lists may share urls; list(set(...)) leaves their order open.
MaxSourceUrls == 2

SourceUrls == {<<"https://learn/", k>> : k \in 1..MaxSourceUrls}

SourceUrlLists ==
    {l \in UNION {[1..n -> SourceUrls] : n \in 0..MaxSourceUrls} :
        \A i, j \in DOMAIN l : i # j => l[i] # l[j]}

\* x in l, for a list l
InList(x, l) == \E i \in DOMAIN l : l[i] = x

SavedEpisodeNumber(r) == IF r = "A" THEN 1 ELSE 2

SavedEpisode(r) ==
    PreparedEpisode([domain |-> "d1", topics |-> <<"t", SavedEpisodeNumber(r)>>],
                    SavedEpisodeNumber(r), "d1", <<"narration", SavedEpisodeNumber(r)>>)

\* discover_exam_content: a source document, here with the references
\* earlier runs left in it.
SourceDocs(url) ==
    {[url |-> url, episodeRefs |-> refs] :
        refs \in {<<>>, <<EpisodeId(1)>>, <<EpisodeId(3)>>}}

InitSources ==
    /\ tts = IdleTts /\ textfn = IdleText /\ progress = IdleProgress
    /\ skills = <<>>
    /\ topics_per_episode = 1
    /\ \E la, lb \in SourceUrlLists :
         run = [r \in Invocations |->
                  [pc |-> "upsert", episode_number |-> SavedEpisodeNumber(r),
                   source_urls |-> IF r = "A" THEN la ELSE lb,
                   url_index |-> 1, source_doc |-> <<>>]]
    /\ episodes = <<>>
    /\ blobs = <<>>
    /\ calls = {}
    /\ faults = 0
    /\ \E S \in SUBSET SourceUrls :
         \E f \in [S -> UNION {SourceDocs(u) : u \in SourceUrls}] :
            /\ \A u \in S : f[u].url = u
            /\ sources = f
    /\ psd = IdleDomain
    /\ retry = IdleRetry

\* save_episode: the loop "for url in source_urls" moves to the next url.
NextUrl(st) ==
    IF st.url_index < Len(st.source_urls)
    THEN [st EXCEPT !.pc = "query", !.url_index = @ + 1, !.source_doc = <<>>]
    ELSE [st EXCEPT !.pc = "done", !.source_doc = <<>>]

\* save_episode, line 93: container.upsert_item(episode_doc); an exception
\* here leaves save_episode.
SaveUpsert(r) ==
    /\ run[r].pc = "upsert"
    /\ \/ /\ episodes' = Upsert(episodes, EpisodeId(run[r].episode_number),
                                EpisodeDoc(SavedEpisode(r)))
          /\ run' = [run EXCEPT ![r] =
                       IF @.source_urls = <<>> THEN [@ EXCEPT !.pc = "done"]
                       ELSE [@ EXCEPT !.pc = "query"]]
          /\ UNCHANGED faults
       \/ /\ faults < MaxFaults
          /\ faults' = faults + 1
          /\ run' = [run EXCEPT ![r].pc = "failed"]
          /\ UNCHANGED episodes
    /\ UNCHANGED <<sources, tts, textfn, progress, psd, retry, skills, topics_per_episode, blobs, calls>>

\* save_episode, lines 99-114: the query for the source document of one url
\* and the append to the copy it returned.
SaveQuery(r) ==
    /\ run[r].pc = "query"
    /\ LET st == run[r]
           url == st.source_urls[st.url_index]
           episode_id == EpisodeId(st.episode_number)
           found == IF url \in DOMAIN sources THEN <<sources[url]>> ELSE <<>>
       IN  \/ /\ UNCHANGED faults
              /\ run' = [run EXCEPT ![r] =
                   IF found # <<>> /\ ~InList(episode_id, found[1].episodeRefs)
                   THEN [st EXCEPT !.pc = "update",
                                   !.source_doc =
                                       [found[1] EXCEPT !.episodeRefs = Append(@, episode_id)]]
                   ELSE NextUrl(st)]
           \/ /\ faults < MaxFaults
              /\ faults' = faults + 1
              /\ run' = [run EXCEPT ![r] = NextUrl(st)]
    /\ UNCHANGED <<sources, tts, textfn, progress, psd, retry, skills, topics_per_episode, episodes, blobs, calls>>

\* save_episode, line 115: sources_container.upsert_item(source_doc) writes
\* the whole copy back; an exception is caught and printed (lines 117-118).
SaveUpdate(r) ==
    /\ run[r].pc = "update"
    /\ LET st == run[r]
       IN  \/ /\ sources' = Upsert(sources, st.source_doc.url, st.source_doc)
              /\ UNCHANGED faults
           \/ /\ faults < MaxFaults
              /\ faults' = faults + 1
              /\ UNCHANGED sources
    /\ run' = [run EXCEPT ![r] = NextUrl(@)]
    /\ UNCHANGED <<tts, textfn, progress, psd, retry, skills, topics_per_episode, episodes, blobs, calls>>

NextSources ==
    \E r \in Invocations :
        \/ SaveUpsert(r)
        \/ SaveQuery(r)
        \/ SaveUpdate(r)

SpecSources == InitSources /\ [][NextSources]_vars

\* ------------------------------------------------------------- claims

Started(r) == run[r].pc # "idle"
Numbers(r) == {run[r].numbered[k].number : k \in DOMAIN run[r].numbered}
SkippedNumbers(r) == {run[r].skipped_episodes[k].number : k \in DOMAIN run[r].skipped_episodes}
ErrorsAbout(r, n) == {k \in DOMAIN run[r].errors : run[r].errors[k][2] = n}
GeneratedIds(r) == {run[r].generated_episodes[k].id : k \in DOMAIN run[r].generated_episodes}
Called(r, kind, n) == <<r, kind, n>> \in calls
CalledNumbers(r, kind) == {c[3] : c \in {d \in calls : d[1] = r /\ d[2] = kind}}
PaidKinds == {"retrieve", "generate", "ssml", "synthesize", "upload", "save", "upsert"}
\* C1: the unit at 0-based global position p of the flattened list gets episode
\* number p+1 in every invocation whose slice contains p, whatever the batch
\* index and the batch size; and once Phase 1 is over every position of the
\* slice has been numbered.
C1_NumberIsGlobalPosition ==
    LET units == episode_units IN
    \A r \in Invocations :
        LET slice == {p \in 0..(Len(units) - 1) :
                        /\ run[r].batch_index * run[r].batch_size <= p
                        /\ p < run[r].batch_index * run[r].batch_size + run[r].batch_size}
        IN  /\ \A k \in DOMAIN run[r].numbered :
                 \A p \in 0..(Len(units) - 1) :
                    units[p + 1] = run[r].numbered[k].unit
                        => /\ run[r].numbered[k].number = p + 1
                           /\ p \in slice
            /\ run[r].pc \in {"synth", "finalize", "done"}
                 => \A p \in slice :
                        \E k \in DOMAIN run[r].numbered :
                            run[r].numbered[k] = [unit |-> units[p + 1], number |-> p + 1]

\* C1 witness: a later batch of size 2 has numbered the unit at position 3 as 4.
C1_Witness ==
    /\ run["A"].batch_index = 1 /\ run["A"].batch_size = 2
    /\ \E k \in DOMAIN run["A"].numbered :
          /\ run["A"].numbered[k].number = 4
          /\ run["A"].numbered[k].unit = episode_units[4]

\* C2: two invocations with the same batch size and different batch indices
\* never compute the same episode number and never write the same episode id or
\* blob path; every unit of the flattened list lies in the slice of exactly one
\* batch index.
C2_BatchesNeverCollide ==
    /\ \A a \in Invocations, b \in Invocations :
         (/\ Started(a) /\ Started(b)
          /\ run[a].batch_size = run[b].batch_size
          /\ run[a].batch_index # run[b].batch_index)
         => /\ Numbers(a) \cap Numbers(b) = {}
            /\ {EpisodeId(n) : n \in CalledNumbers(a, "upsert")}
                 \cap {EpisodeId(n) : n \in CalledNumbers(b, "upsert")} = {}
            /\ {BlobPaths(n)[k] : n \in CalledNumbers(a, "upload"), k \in 1..3}
                 \cap {BlobPaths(n)[k] : n \in CalledNumbers(b, "upload"), k \in 1..3} = {}
    /\ \A r \in Invocations :
         Started(r) =>
            \A p \in 1..Len(episode_units) :
                Cardinality({bi \in 0..Len(episode_units) :
                    \E k \in DOMAIN BatchUnitsOf(bi, run[r].batch_size) :
                        BatchUnitsOf(bi, run[r].batch_size)[k] = episode_units[p]}) = 1

\* C2 witness: both invocations, on different batch indices, have persisted.
C2_Witness ==
    /\ run["A"].pc = "done" /\ run["B"].pc = "done"
    /\ run["A"].batch_index # run["B"].batch_index
    /\ run["A"].generated_episodes # <<>>
    /\ run["B"].generated_episodes # <<>>

\* C3: when force-regenerate is off and the existence check finds the document,
\* the unit is recorded as skipped, not as an error, and no retrieval,
\* generation, markup, synthesis, upload or persist call is made for it.
C3_ExistingUnitIsSkipped ==
    \A r \in Invocations :
        \A n \in CalledNumbers(r, "exists") :
            /\ ~run[r].force_regenerate
            /\ n \in SkippedNumbers(r)
            /\ ErrorsAbout(r, n) = {}
            /\ \A kind \in PaidKinds : ~Called(r, kind, n)

\* C3 witness: a finished run in which the existence check found a document.
C3_Witness ==
    /\ run["A"].pc = "done"
    /\ CalledNumbers("A", "exists") # {}
    /\ run["A"].generated_episodes # <<>>

\* The second run b starts when the first run a, with the same batch index and
\* size, has persisted every unit of the slice.
FirstRunPersistedAll(a, b) ==
    /\ run[a].pc = "done"
    /\ run[a].batch_index = run[b].batch_index
    /\ run[a].batch_size = run[b].batch_size
    /\ Len(run[a].generated_episodes) = Len(batch_units(a))
    /\ GeneratedIds(a) \subseteq run[b].existing_at_start

\* C4: a second run with identical input, the first having persisted every
\* unit: without the force flag it generates nothing and skips every unit; with
\* the force flag it regenerates every unit and upserts the same episode ids.
\* (Stated for second runs that end without an error.)
C4_RerunIsIdempotent ==
    \A a \in Invocations, b \in Invocations :
        (a # b /\ run[b].pc = "done" /\ run[b].errors = <<>> /\ FirstRunPersistedAll(a, b))
        => IF run[b].force_regenerate
           THEN /\ GeneratedIds(b) = GeneratedIds(a)
                /\ run[b].skipped_episodes = <<>>
           ELSE /\ run[b].generated_episodes = <<>>
                /\ Len(run[b].skipped_episodes) = Len(batch_units(b))

\* C5: without the force flag no invocation upserts an episode document whose
\* id is already in the store, whatever the store's reads answer; an existing
\* document changes only by a forced regeneration, which replaces it whole.
C5_NoUnforcedOverwrite ==
    [][\A r \in Invocations :
          \A id \in DOMAIN episodes :
             (run'[r] # run[r] /\ episodes'[id] # episodes[id])
                => /\ run[r].force_regenerate
                   /\ episodes'[id] \in {EpisodeDoc(run[r].synthesized_episodes[k].ep) :
                                            k \in DOMAIN run[r].synthesized_episodes}]_vars

Errors(r) == Len(run[r].errors)
Generated(r) == Len(run[r].generated_episodes)
Skipped(r) == Len(run[r].skipped_episodes)

\* C6 as stated: exit 0 when no unit errored and at least one unit was
\* generated or skipped; exit 1 when any unit errored or when zero units were
\* generated and zero were skipped.
C6_ExitCodeAsStated ==
    \A r \in Invocations :
        run[r].pc = "done" =>
            /\ (Errors(r) = 0 /\ (Generated(r) > 0 \/ Skipped(r) > 0)) => run[r].exit_code = 0
            /\ (Errors(r) > 0 \/ (Generated(r) = 0 /\ Skipped(r) = 0)) => run[r].exit_code = 1

\* C6 amended: exit 0 when no unit errored and at least one unit was generated
\* or skipped, and also when the slice is empty (main returns before any unit
\* is processed); exit 1 when any unit errored, or when a non-empty slice ended
\* with zero units generated and zero skipped.
C6_ExitCode ==
    \A r \in Invocations :
        run[r].pc = "done" =>
            /\ (Errors(r) = 0 /\ (Generated(r) > 0 \/ Skipped(r) > 0)) => run[r].exit_code = 0
            /\ batch_units(r) = <<>> => run[r].exit_code = 0
            /\ (Errors(r) > 0 \/ (batch_units(r) # <<>> /\ Generated(r) = 0 /\ Skipped(r) = 0))
                  => run[r].exit_code = 1
            /\ run[r].exit_code \in {0, 1}

\* C6 witness: a run that generated one unit and lost another to an error.
C6_Witness ==
    /\ run["A"].pc = "done"
    /\ Generated("A") > 0
    /\ Errors("A") > 0
    /\ run["A"].exit_code = 1

TaskNumber(r, k) == run[r].prepared_episodes[k].episode_number
SynthesizedNumbers(r) ==
    {run[r].synthesized_episodes[k].ep.episode_number : k \in DOMAIN run[r].synthesized_episodes}

\* C7: a failed synthesis task neither cancels nor prevents any other task:
\* once Phase 2 is over every submitted task has run to completion, every
\* task that succeeded is synthesized and, at the end, finalized; the failed
\* unit has exactly one entry in the error list and is never finalized; the
\* failure shows only as the exit code 1 at the end of the batch.
C7_SynthesisFailureIsIsolated ==
    \A r \in Invocations :
        /\ \A k \in DOMAIN run[r].tasks :
              /\ run[r].pc \in {"finalize", "done"}
                    => /\ run[r].tasks[k] \in {"ok", "failed"}
                       /\ Called(r, "synthesize", TaskNumber(r, k))
              /\ run[r].tasks[k] = "ok" => TaskNumber(r, k) \in SynthesizedNumbers(r)
              /\ (run[r].tasks[k] = "ok" /\ run[r].pc = "done")
                    => Called(r, "upload", TaskNumber(r, k))
              /\ run[r].tasks[k] = "failed"
                    => /\ Cardinality(ErrorsAbout(r, TaskNumber(r, k))) = 1
                       /\ TaskNumber(r, k) \notin SynthesizedNumbers(r)
                       /\ \A kind \in {"upload", "save", "upsert"} :
                             ~Called(r, kind, TaskNumber(r, k))
                       /\ run[r].pc = "done" => run[r].exit_code = 1
        /\ run[r].pc # "done" => run[r].exit_code = -1

\* C7 witness: a finished run in which one task failed and another unit was
\* synthesized and persisted.
C7_Witness ==
    /\ run["A"].pc = "done"
    /\ \E k \in DOMAIN run["A"].tasks : run["A"].tasks[k] = "failed"
    /\ run["A"].generated_episodes # <<>>

\* C8: for every behaviour of the generation engine, process_skill_domain
\* terminates after generating at most max_parts (5) parts: at most 5 episode
\* documents are persisted and at most 5 * (max_length_retries + 1) generation
\* calls are made.
C8_TerminatesWithinMaxParts ==
    /\ [](/\ psd.parts_generated <= 5
          /\ Len(psd.episode_docs) <= 5
          /\ Cardinality(DOMAIN episodes) <= 5
          /\ psd.gen_calls <= 5 * (max_length_retries + 1))
    /\ <>(psd.pc \in {"returned", "raised"})

\* C8 witness: the engine signalled continuation on every part and the
\* function ended with five documents persisted.
C8_Witness ==
    /\ psd.pc = "returned"
    /\ psd.has_more
    /\ psd.parts_generated = 5
    /\ Len(psd.episode_docs) = 5
    /\ Cardinality(DOMAIN episodes) = 5

\* C9: when the engine still signals continuation on the part that reaches
\* the max-parts bound, the controller raises a fatal error; it does not
\* return the truncated list of episode documents as a successful result.
C9_BoundExceededIsFatal ==
    psd.pc = "returned" => ~psd.has_more

C11_OtherFailurePropagatesAtOnce ==
    \A q \in 1..Len(retry.outcomes) :
        retry.outcomes[q] = "APIError"
           => /\ q = Len(retry.outcomes)
              /\ retry.upstream_calls = q
              /\ retry.pc = "raised"
              /\ retry.result = <<"APIError", q>>
              /\ Len(retry.sleeps) = q - 1
              /\ \A j \in 1..(q - 1) : retry.outcomes[j] = "RateLimitError"

\* C11 witness: the third attempt, after two rate-limited ones, failed with
\* another error, which was raised after the two sleeps only.
C11_Witness ==
    /\ retry.pc = "raised"
    /\ retry.outcomes = <<"RateLimitError", "RateLimitError", "APIError">>
    /\ retry.sleeps = <<2, 4>>
    /\ retry.result = <<"APIError", 3>>

\* The paragraphs of the segments, one segment after the other.
RECURSIVE ParagraphsOfAll(_)
ParagraphsOfAll(segments) ==
    IF segments = <<>> THEN <<>>
    ELSE Paragraphs(segments[1]) \o ParagraphsOfAll(Tail(segments))

\* C14: split_narration_for_tts returns non-empty segments; joining them with
\* blank lines and splitting the result into paragraphs again gives exactly
\* the non-empty paragraphs of the input, in order; no paragraph is lost,
\* duplicated, reordered or split across segments.
C14_SegmentsKeepTheParagraphs ==
    textfn.pc = "returned" =>
        /\ \A g \in DOMAIN textfn.segments : textfn.segments[g] # <<>>
        /\ Paragraphs(Join(textfn.segments, <<"\n", "\n">>)) = Paragraphs(textfn.narration)
        /\ ParagraphsOfAll(textfn.segments) = Paragraphs(textfn.narration)

\* C14 witness: a narration of three paragraphs came back as two segments.
C14_Witness ==
    /\ textfn.pc = "returned"
    /\ Len(Paragraphs(textfn.narration)) = 3
    /\ Len(textfn.segments) = 2

\* C15: every segment has at most max_words_per_segment words, except a
\* segment that is one single paragraph whose own word count exceeds the
\* bound.
C15_SegmentsWithinBound ==
    textfn.pc = "returned" =>
        \A g \in DOMAIN textfn.segments :
            \/ WordsIn(textfn.segments[g]) <= textfn.max_words_per_segment
            \/ Len(Paragraphs(textfn.segments[g])) = 1

\* C15 witness: of two segments one is a single paragraph over the bound.
C15_Witness ==
    /\ textfn.pc = "returned"
    /\ Len(textfn.segments) = 2
    /\ \E g \in DOMAIN textfn.segments :
          /\ WordsIn(textfn.segments[g]) > textfn.max_words_per_segment
          /\ Len(Paragraphs(textfn.segments[g])) = 1
    /\ \E g \in DOMAIN textfn.segments :
          WordsIn(textfn.segments[g]) <= textfn.max_words_per_segment

\* The temporary part files on disk.
PartFilesLeft == {q \in DOMAIN tts.files : \E k \in 1..MaxParagraphs + 1 : q = PartPath(k)}

\* C12: in chunked synthesis, when the synthesis of segment k fails, no later
\* segment is synthesized, no temporary part file of the episode remains on
\* disk, the final output file is never written, and the driver raises
\* instead of returning an audio result.
C12_FailedSegmentLeavesNothing ==
    tts.failed # 0 =>
        /\ \A k \in DOMAIN tts.synthesized : tts.synthesized[k] <= tts.failed
        /\ PartFilesLeft = {}
        /\ OutputPath \notin DOMAIN tts.files
        /\ tts.pc = "raised"
        /\ tts.result = <<>>

\* The chunked path has returned an audio result.
ChunkedSuccess == tts.pc = "returned" /\ tts.segments # <<>>

\* The output file is the parts of segments 1..n in this order, and the
\* reported duration is the sum of their durations.
OutputIsConcatenation ==
    LET out == tts.files[OutputPath]
    IN  /\ Len(out) = Len(tts.segments)
        /\ \A k \in DOMAIN out : out[k].of = k
        /\ tts.result.audio_path = OutputPath
        /\ tts.result.duration_seconds =
              SumSeq([k \in DOMAIN out |-> DurationOf(out[k].size)])

\* C13 as stated: when every segment is synthesized successfully, the output
\* file is the concatenation of the parts in segment order, the duration is
\* the sum of the segments' durations, and every temporary part file has been
\* deleted.
C13_AsStated ==
    ChunkedSuccess => OutputIsConcatenation /\ PartFilesLeft = {}

\* C13 amended: as above, except that the removal of every temporary part file
\* has been attempted and a part file remains only when its removal failed,
\* which is ignored.
C13_ConcatenationInOrder ==
    ChunkedSuccess => OutputIsConcatenation /\ PartFilesLeft \subseteq tts.remove_failed

\* C13 witness: three segments of different sizes were synthesized, and only
\* the output file is left.
C13_Witness ==
    /\ ChunkedSuccess
    /\ Len(tts.segments) = 3
    /\ DOMAIN tts.files = {OutputPath}
    /\ tts.result.duration_seconds = 4
    /\ tts.files[OutputPath][1].size # tts.files[OutputPath][2].size

\* C16: for any narration (empty, blank, with ampersands or angle brackets,
\* with [PAUSE], with role markers only) and either audio format,
\* build_ssml_from_narration returns markup that is well-formed and has a
\* single speak root element.
C16_BuilderReturnsWellFormedMarkup ==
    textfn.pc # "called" =>
        /\ textfn.pc = "returned"
        /\ WellFormed(textfn.ssml)
        /\ textfn.ssml[1] = <<"open", "speak", "en-US">>

\* C17: whenever sanitize_ssml returns for markup with a voice element whose
\* name is outside the allow-list, the returned markup is well-formed, every
\* voice name in it is in the allow-list, and each name that was outside it
\* now is the instructional voice.
C17_OnlyAllowedVoicesRemain ==
    LET allowed == allowed_voices("en-US-AndrewNeural", "en-US-GuyNeural",
                                  "en-US-TonyNeural")
    IN  (/\ textfn.pc = "returned"
         /\ "ssml_out" \in DOMAIN textfn
         /\ VoiceNamesOf(textfn.ssml) \ allowed # {})
        => /\ ParsesAsXml(textfn.ssml_out)
           /\ VoiceNamesOf(textfn.ssml_out) \subseteq allowed
           /\ \A v \in 1..Len(textfn.ssml.voices) :
                 \A i \in 1..Len(textfn.ssml.voices[v]) :
                    (/\ textfn.ssml.voices[v][i].key = "name"
                     /\ textfn.ssml.voices[v][i].value \notin allowed)
                    => textfn.ssml_out.voices[v][i].value = "en-US-AndrewNeural"

\* C18: when process_skill_domain returns, every generated part has exactly
\* one persisted document, and the documents of the unit carry the same
\* skillDomain, pairwise distinct sequenceNumber and pairwise distinct title,
\* whatever episode_title was passed in.
C18_OneDistinctDocumentPerPart ==
    psd.pc = "returned"
    => LET docs == psd.episode_docs
       IN  /\ Len(docs) = psd.parts_generated
           /\ \A i \in 1..Len(docs) :
                 /\ docs[i].id \in DOMAIN episodes
                 /\ episodes[docs[i].id] = docs[i]
                 /\ docs[i].skillDomain = psd.skill_domain
           /\ \A i, j \in 1..Len(docs) :
                 i # j => /\ docs[i].sequenceNumber # docs[j].sequenceNumber
                          /\ docs[i].title # docs[j].title

\* The least k with k * size >= n.
CeilDiv(n, size) == CHOOSE k \in 0..n : k * size >= n /\ \A m \in 0..(k - 1) : m * size < n

\* The positions of the units of domain d of main_skills in a list of units.
UnitsOfDomain(units, d) == {i \in 1..Len(units) : units[i].domain = main_skills[d].name}

\* The units of a domain are its topics cut, in outline order, into
\* consecutive chunks of topics_per_episode topics, only the last one possibly
\* shorter; a domain of n topics has ceil(n / topics_per_episode) units, their
\* part fields run 1..total_parts, they are contiguous in the list and the
\* domains keep the outline order.
ChunksInOrder ==
    textfn.pc = "expanded"
    => LET units == textfn.episode_units
           tpe   == topics_per_episode
           ms    == main_skills
       IN  /\ \A i \in 1..Len(units) : \E d \in 1..Len(ms) : units[i].domain = ms[d].name
           /\ \A d \in 1..Len(ms) :
                 LET at    == UnitsOfDomain(units, d)
                     n     == Len(ms[d].topics)
                     first == CHOOSE i \in at : \A j \in at : i <= j
                 IN  /\ Cardinality(at) = CeilDiv(n, tpe)
                     /\ at = first..(first + Cardinality(at) - 1)
                     /\ \A e \in 1..Len(ms) :
                           d < e => \A i \in at, j \in UnitsOfDomain(units, e) : i < j
                     /\ \A i \in at :
                           LET part == i - first + 1
                               from == (part - 1) * tpe + 1
                               to   == IF part * tpe < n THEN part * tpe ELSE n
                           IN  /\ units[i].part = part
                               /\ units[i].total_parts = Cardinality(at)
                               /\ units[i].topics = SubSeq(ms[d].topics, from, to)
                               /\ Len(units[i].topics) <= tpe
                               /\ part < Cardinality(at) => Len(units[i].topics) = tpe

\* Expanding the same outline again yields the same ordered list.
SameListAgain ==
    (textfn.pc = "expanded" /\ textfn'.pc = "expanded")
    => textfn'.episode_units = textfn.episode_units

\* C19: the expansion cuts every domain's topics, in outline order, into
\* consecutive chunks of topics_per_episode topics with only the last chunk
\* of a domain possibly shorter, ceil(n / topics_per_episode) units per
\* domain with parts 1..total_parts, contiguous per domain, and a repeated
\* expansion of the same outline gives the same ordered list.
C19_FlattenChunksInOrder == [](ChunksInOrder) /\ [][SameListAgain]_vars

\* One domain of 12 topics at 5 topics per episode gave chunks of 5, 5 and 2.
C19_Witness ==
    /\ textfn.pc = "expanded"
    /\ textfn.expansions = 2
    /\ Len(skills) = 1
    /\ Len(skills[1].topics) = 12
    /\ topics_per_episode = 5
    /\ [i \in 1..Len(textfn.episode_units) |-> Len(textfn.episode_units[i].topics)]
          = <<5, 5, 2>>

\* The stored map merged with an incoming one: completed is the OR, position
\* the larger one, an episode of one side only keeps its values.
MergedProgress(stored, incoming) ==
    [e \in DOMAIN stored \cup DOMAIN incoming |->
        IF e \in DOMAIN stored /\ e \in DOMAIN incoming
        THEN [completed |-> stored[e].completed \/ incoming[e].completed,
              position  |-> IF stored[e].position >= incoming[e].position
                            THEN stored[e].position ELSE incoming[e].position]
        ELSE IF e \in DOMAIN stored THEN stored[e] ELSE incoming[e]]

\* C20: every bulk update leaves the stored map merged with the incoming
\* one (completed = stored OR incoming, position = max, new episodes added),
\* so that no completed flag is cleared and no stored position decreases.
C20_BulkUpdateMerges ==
    [][(progress'.requests = progress.requests + 1 /\ progress'.body.progress # <<>>)
         => /\ progress'.stored = MergedProgress(progress.stored, progress'.body.progress)
            /\ \A e \in DOMAIN progress.stored :
                  /\ e \in DOMAIN progress'.stored
                  /\ progress.stored[e].completed => progress'.stored[e].completed
                  /\ progress'.stored[e].position >= progress.stored[e].position]_vars

\* The kinds of the calls invocation r has made so far.
KindsCalled(r, log) == {c[2] : c \in {x \in log : x[1] = r}}

\* Where invocation A stands, phase by phase.
PhasesApart ==
    LET st == run["A"]
        unfinished == {k \in DOMAIN st.tasks : st.tasks[k] = "pending"}
    IN  /\ Cardinality(tts.running) <= TTS_MAX_WORKERS
        /\ tts.running \subseteq unfinished
        /\ unfinished # {} => /\ st.pc = "synth"
                               /\ st.i = Len(batch_units("A"))
                               /\ st.j = 0
                               /\ st.generated_episodes = <<>>
        /\ st.pc = "prepare" => /\ st.tasks = <<>>
                                 /\ st.synthesized_episodes = <<>>
                                 /\ KindsCalled("A", calls) \cap {"synthesize", "upload", "save", "upsert"} = {}
        /\ st.pc = "synth" => KindsCalled("A", calls) \cap {"upload", "save", "upsert"} = {}
        /\ \A k \in 1..Len(st.numbered) :
              /\ st.numbered[k].unit = batch_units("A")[k]
              /\ st.numbered[k].number = base_episode_number("A") + k - 1

\* What one step of invocation A does: one prepare step, or one finalize
\* step, or one start or end of a synthesis task, each in its own phase.
OnePhaseAtATime ==
    LET st == run["A"]
        nx == run'["A"]
        new == KindsCalled("A", calls' \ calls)
        unfinished == {k \in DOMAIN st.tasks : st.tasks[k] = "pending"}
    IN  /\ nx.i \in {st.i, st.i + 1}
        /\ nx.j \in {st.j, st.j + 1}
        /\ ~(nx.i # st.i /\ nx.j # st.j)
        /\ new \cap {"read", "retrieve", "generate", "ssml"} # {}
              => st.pc = "prepare" /\ st.tasks = <<>> /\ tts.running = {} /\ nx.i = st.i + 1
        /\ "synthesize" \in new
              => st.pc = "synth" /\ st.i = Len(batch_units("A")) /\ st.j = 0
        /\ new \cap {"upload", "save", "upsert"} # {}
              => st.pc = "finalize" /\ unfinished = {} /\ tts.running = {} /\ nx.j = st.j + 1

\* C21: within one invocation the phases never overlap: prepare steps run one
\* at a time in slice order and end before any synthesis task is submitted,
\* all synthesis tasks end before the first finalize step, finalize steps run
\* one at a time, and only synthesis tasks run concurrently, at most
\* TTS_MAX_WORKERS at once.
C21_PhasesNeverOverlap == [](PhasesApart) /\ [][OnePhaseAtATime]_vars

\* Two synthesis tasks were submitted to a pool of width one: one runs, the
\* other waits.
C21_Witness ==
    /\ run["A"].pc = "synth"
    /\ TTS_MAX_WORKERS = 1
    /\ Cardinality(tts.running) = 1
    /\ Queued("A") # {}

\* The position in seq of the element whose number is n (0 when absent).
PositionOf(seq, n) ==
    LET at == {k \in 1..Len(seq) : seq[k] = n} IN IF at = {} THEN 0 ELSE CHOOSE k \in at : TRUE

\* C22: whatever the order in which the synthesis tasks complete, every
\* document invocation A persists is the one of the unit that got that
\* episode number in Phase 1, with that unit's domain, topics, title,
\* narration and audio; the documents are finalized in completion order.
C22_CompletionOrderDoesNotChangeTheMapping ==
    LET st        == run["A"]
        completed == [k \in 1..Len(st.synthesized_episodes) |->
                         st.synthesized_episodes[k].ep.episode_number]
        finalized == [k \in 1..Len(st.generated_episodes) |->
                         st.generated_episodes[k].sequenceNumber]
    IN  /\ \A g \in 1..Len(st.generated_episodes) :
              LET doc    == st.generated_episodes[g]
                  k      == doc.sequenceNumber - base_episode_number("A") + 1
                  unit   == batch_units("A")[k]
                  ep     == CHOOSE p \in {st.prepared_episodes[x] : x \in DOMAIN st.prepared_episodes} :
                                p.episode_number = doc.sequenceNumber
              IN  /\ k \in 1..Len(batch_units("A"))
                  /\ st.numbered[k] = [unit |-> unit, number |-> doc.sequenceNumber]
                  /\ doc.id = EpisodeId(doc.sequenceNumber)
                  /\ doc.skillDomain = unit.domain
                  /\ doc.skillTopics = unit.topics
                  /\ doc.title = episode_title(unit)
                  /\ doc.contentHash = ep.narration
                  /\ SubSeq(ep.narration, 1, 2) = <<"A", doc.sequenceNumber>>
                  /\ doc.id \in DOMAIN episodes /\ episodes[doc.id] = doc
                  /\ AudioBlobPath(doc.sequenceNumber) \in DOMAIN blobs
                  /\ blobs[AudioBlobPath(doc.sequenceNumber)]
                        = <<"mp3", ep.narration>>
        /\ \A a, b \in 1..Len(finalized) :
              a < b => /\ PositionOf(completed, finalized[a]) > 0
                       /\ PositionOf(completed, finalized[a]) < PositionOf(completed, finalized[b])

\* Two episodes were finalized and the later unit of the slice completed, and
\* was finalized, first.
C22_Witness ==
    LET st == run["A"]
    IN  /\ st.pc = "done"
        /\ Len(st.generated_episodes) = 2
        /\ st.generated_episodes[1].sequenceNumber > st.generated_episodes[2].sequenceNumber

\* The narrations process_skill_domain has passed on: the one of the current
\* part, the scripts uploaded, the context summary of the next part.
NarrationsPassedOn ==
    (IF psd.narration # <<>> THEN {psd.narration} ELSE {})
    \cup {blobs[p][2] : p \in {q \in DOMAIN blobs : q[1] = "scripts"}}
    \cup (IF psd.topics_covered_so_far # <<>> THEN {psd.topics_covered_so_far[2]} ELSE {})

\* C23: for every generated part the continuation decision is whether the
\* raw output of the last generation attempt contained the marker, and the
\* narration passed on (word count, markup, synthesis, upload, next part's
\* context) never contains the marker.
C23_MarkerDetectedThenStripped ==
    psd.pc \in {"generate", "finish", "returned"} /\ psd.narration # <<>>
    => /\ psd.has_more = Contains(psd.raw.ending, CONTINUATION_MARKER)
       /\ \A n \in NarrationsPassedOn : ~Contains(n.ending, CONTINUATION_MARKER)

\* A step of process_skill_domain in which the engine answered.
EngineAnswered == psd'.gen_calls = psd.gen_calls + 1 /\ psd'.pc # "raised"

\* What a generation step does with the answer of the engine.
LengthRetryRule ==
    /\ psd'.gen_calls \in {psd.gen_calls, psd.gen_calls + 1}
    /\ EngineAnswered
         => LET short == WordCount(psd'.narration) < psd.min_words
                again == psd'.pc = "generate" /\ psd'.part_number = psd.part_number
            IN  /\ psd.attempt <= max_length_retries
                /\ again <=> (short /\ psd.attempt < max_length_retries)
                /\ again => /\ psd'.attempt = psd.attempt + 1
                            /\ psd'.min_words = (psd.min_words * 115) \div 100
                /\ ~again => psd'.pc = "finish"
    /\ psd'.gen_calls = psd.gen_calls + 1 /\ psd'.pc = "raised"
         => psd'.narration = psd.narration /\ psd'.raw = psd.raw
    /\ psd'.part_number # psd.part_number /\ psd'.pc = "generate"
         => psd'.attempt = 0 /\ psd'.min_words = base_min_words

\* C24: the engine is called at most max_length_retries + 1 times for a part;
\* a retry happens only when the cleaned narration is shorter than the
\* current target and an attempt is left, its target is int(1.15 * target),
\* every part starts from the base target, and the last attempt is accepted
\* even when short: a shortfall never fails the unit.
C24_BoundedLengthRetries ==
    /\ [](/\ psd.attempt <= max_length_retries
          /\ psd.gen_calls <= (max_length_retries + 1) * psd.part_number
          /\ psd.pc = "generate" /\ psd.attempt = 0 => psd.min_words = base_min_words)
    /\ [][LengthRetryRule]_vars

\* A second part was accepted after its retry although it was still short.
C24_Witness ==
    /\ psd.pc = "finish"
    /\ psd.part_number = 2
    /\ psd.attempt = max_length_retries
    /\ psd.min_words = 1380
    /\ WordCount(psd.narration) < psd.min_words

\* How many elements of seq are in the set S.
CountIn(seq, S) == Cardinality({k \in 1..Len(seq) : seq[k] \in S})

\* C25: in the markup build_ssml_from_narration returns, every [PAUSE] of the
\* narration has become exactly one 500 ms break, every &, < and > of the
\* narration appears as an entity only, and the only markup inside the speak
\* root is the builder's voice and prosody elements and its breaks.
C25_NarrationCannotInjectMarkup ==
    (textfn.pc = "returned" /\ "narration" \in DOMAIN textfn)
    => LET m == textfn.ssml
           n == textfn.narration
       IN  /\ CountIn(m, {BreakOf("500ms")}) = CountIn(n, {"[PAUSE]"})
           /\ CountIn(m, {TextOf("[PAUSE]")}) = 0
           /\ CountIn(m, {TextOf("&"), TextOf("<"), TextOf(">")}) = 0
           /\ CountIn(m, {<<"entity", "amp", "">>}) = CountIn(n, {"&"})
           /\ CountIn(m, {<<"entity", "lt", "">>}) = CountIn(n, {"<"})
           /\ CountIn(m, {<<"entity", "gt", "">>}) = CountIn(n, {">"})
           /\ \A k \in 2..(Len(m) - 1) :
                 \/ m[k][1] \in {"text", "entity"}
                 \/ m[k][1] = "empty" /\ m[k][2] = "break"
                      /\ m[k][3] \in {"200ms", "300ms", "500ms"}
                 \/ m[k][1] \in {"open", "close"} /\ m[k][2] \in {"voice", "prosody"}

\* A narration with a pause and the three special characters was built.
C25_Witness ==
    /\ textfn.pc = "returned"
    /\ "narration" \in DOMAIN textfn
    /\ \A c \in {"[PAUSE]", "&", "<", ">"} : CountIn(textfn.narration, {c}) = 1

\* C26: when process_skill_domain returns more than one part, the documents
\* are titled "<domain> (Part 1)", "<domain> (Part 2)", ... in part order,
\* the first part included.
C26_EveryPartTitleHasItsNumber ==
    (psd.pc = "returned" /\ Len(psd.episode_docs) > 1)
    => \A i \in 1..Len(psd.episode_docs) :
          psd.episode_docs[i].title = <<psd.skill_domain, "Part", i>>



\* C27: when two parallel batch invocations have both finished saving and no
\* store request failed, both episode documents are in the store as written
\* and every source document that both episodes list holds both episode ids
\* in its episodeRefs.
SavesDone == \A r \in Invocations : run[r].pc = "done"

SharedSourceUrls ==
    {u \in DOMAIN sources :
        \A r \in Invocations : \E i \in DOMAIN run[r].source_urls : run[r].source_urls[i] = u}

C27_NoSourceReferenceIsLost ==
    (SavesDone /\ faults = 0) =>
        /\ \A r \in Invocations :
              /\ EpisodeId(SavedEpisodeNumber(r)) \in DOMAIN episodes
              /\ episodes[EpisodeId(SavedEpisodeNumber(r))] = EpisodeDoc(SavedEpisode(r))
        /\ \A u \in SharedSourceUrls : \A r \in Invocations :
              InList(EpisodeId(SavedEpisodeNumber(r)), sources[u].episodeRefs)

\* the half about the episode documents alone
C27_EpisodeDocumentsIntact ==
    (SavesDone /\ faults = 0) =>
        \A r \in Invocations :
            /\ EpisodeId(SavedEpisodeNumber(r)) \in DOMAIN episodes
            /\ episodes[EpisodeId(SavedEpisodeNumber(r))] = EpisodeDoc(SavedEpisode(r))

\* C28: when main() of a non-empty slice has reached its summary, every unit
\* of the slice is in exactly one of generated_episodes, skipped_episodes and
\* errors, so the three lengths add up to the length of the slice, and the
\* exit for "0 generated and 0 skipped" is not taken with an empty error list.
OutcomesOf(st, number) ==
    CountIn([k \in DOMAIN st.generated_episodes |-> st.generated_episodes[k].sequenceNumber], {number})
    + CountIn([k \in DOMAIN st.skipped_episodes |-> st.skipped_episodes[k].number], {number})
    + CountIn([k \in DOMAIN st.errors |-> st.errors[k][2]], {number})

Summarized(r) == run[r].pc = "done" /\ batch_units(r) # <<>>

C28_EveryUnitHasOneOutcome ==
    Summarized("A") =>
        LET st == run["A"]
            n  == Len(batch_units("A"))
        IN  /\ \A i \in 0..(n - 1) : OutcomesOf(st, EpisodeNumber("A", i)) = 1
            /\ Len(st.generated_episodes) + Len(st.skipped_episodes) + Len(st.errors) = n
            /\ st.errors = <<>> =>
                   ~(Len(st.generated_episodes) = 0 /\ Len(st.skipped_episodes) = 0)
            /\ st.exit_code = (IF st.errors # <<>> THEN 1 ELSE 0)

C28_Witness ==
    /\ Summarized("A")
    /\ Len(batch_units("A")) = 2
    /\ Len(run["A"].errors) = 1
    /\ Len(run["A"].generated_episodes) + Len(run["A"].skipped_episodes) = 1

\* C29: every markup handed to speak_ssml_async names only voices configured
\* for the run: the instructional voice for the instructional format, the
\* host and expert voices for the podcast format, on the single-call path
\* and on the chunked path alike.
VoicesIn(markup) ==
    {markup[k][3] : k \in {j \in DOMAIN markup : markup[j][1] = "open" /\ markup[j][2] = "voice"}}

VoicesOfTheRun ==
    IF tts.audio_format = "podcast"
    THEN {tts.voices.podcast_host_voice, tts.voices.podcast_expert_voice}
    ELSE {tts.voices.instructional_voice}

C29_SpokenWithConfiguredVoices ==
    \A k \in DOMAIN tts.spoken :
        /\ VoicesIn(tts.spoken[k]) # {}
        /\ VoicesIn(tts.spoken[k]) \subseteq VoicesOfTheRun

\* the single-call path alone
C29_SingleCallUsesConfiguredVoices ==
    tts.segments = <<>> =>
        \A k \in DOMAIN tts.spoken : VoicesIn(tts.spoken[k]) = VoicesOfTheRun

\* C30: main() writes at most one episode document per unit of its slice,
\* with sequenceNumber the position-based number of the unit, whether or not
\* the generated narration contained the continuation marker; every document
\* it writes has an id in base_episode_number .. base_episode_number + length
\* of the slice - 1.
SliceNumbers(r) ==
    IF run[r].pc = "idle" THEN {}
    ELSE {EpisodeNumber(r, i) : i \in 0..(Len(batch_units(r)) - 1)}

WrittenNumbers(r, log) == {c[3] : c \in {x \in log : x[1] = r /\ x[2] = "upsert"}}

OneDocumentPerUnit ==
    /\ WrittenNumbers("A", calls) \subseteq SliceNumbers("A")
    /\ DOMAIN episodes = {EpisodeId(n) : n \in WrittenNumbers("A", calls)}
    /\ \A n \in WrittenNumbers("A", calls) : episodes[EpisodeId(n)].sequenceNumber = n
    /\ \A k \in DOMAIN run["A"].prepared_episodes :
          run["A"].prepared_episodes[k].episode_number \in SliceNumbers("A")

WritesOwnDocumentOnce ==
    \A id \in DOMAIN episodes' :
        (id \notin DOMAIN episodes \/ episodes'[id] # episodes[id]) =>
            \E n \in SliceNumbers("A") :
                /\ id = EpisodeId(n)
                /\ episodes'[id].sequenceNumber = n
                /\ n \notin WrittenNumbers("A", calls)
                /\ WrittenNumbers("A", calls') = WrittenNumbers("A", calls) \cup {n}

C30_OneDocumentPerUnitInRange == [](OneDocumentPerUnit) /\ [][WritesOwnDocumentOnce]_vars

MarkedNumbers(r) == {c[3] : c \in {x \in calls : x[1] = r /\ x[2] = "marker"}}

C30_Witness ==
    /\ run["A"].pc = "done"
    /\ batch_units("A") # <<>>
    /\ WrittenNumbers("A", calls) = SliceNumbers("A")
    /\ MarkedNumbers("A") = SliceNumbers("A")
    /\ EpisodeNumber("A", 0) > 1

=============================================================================
